---- MODULE Spec2Model ----
(***************************************************************************)
(* Join operators of src/code/src/join.rs (nested-loop Join, HashEqJoin,   *)
(* SortMergeJoin) over the TupleIterator children of src/code/src/common.rs *)
(* A Field is modelled by the i32 of an IntField, a Tuple by the sequence  *)
(* of its fields, Option<T> by <<>> (None) or <<x>> (Some(x)).  Indices    *)
(* are 0-based as in the source; element i of a Vec is v[i + 1].           *)
(* One driving call of an operator is one action.  A panic of a call is    *)
(* recorded in h (ret = "panic") and ends the run of that operator.        *)
(* The children are TupleIterators; fault names at most one call of one    *)
(* child that returns Err instead, as the OpIterator trait allows.         *)
(* The helper functions of the sort-merge join are also applied on their   *)
(* own, to arguments held in u.                                           *)
(* The worker threads of the sort-merge join are followed one step at a    *)
(* time in w: there a driving call is a chain of steps of the driving      *)
(* thread, between which the workers it spawned run.                       *)
(***************************************************************************)
EXTENDS Integers, Sequences, FiniteSets

VARIABLES
    kind,           \* which operator the caller constructed: "NL", "HJ", "SM"; "SMT":
                    \* the sort-merge join with its threads; "helper"
    left_tuples,    \* TupleIterator.tuples of the left child
    right_tuples,   \* TupleIterator.tuples of the right child
    left_schema,    \* TupleIterator.schema of the left child
    right_schema,   \* TupleIterator.schema of the right child
    fault,          \* the child call that returns Err(e), if any
    u,              \* a helper function applied on its own: arguments and result
    w,              \* the driving thread inside open or next, and the workers
    nl,             \* struct Join
    hj,             \* struct HashEqJoin
    sm,             \* struct SortMergeJoin
    h               \* the caller's view: last call, its result, tuples returned

vars == <<kind, left_tuples, right_tuples, left_schema, right_schema, fault, u, w,
          nl, hj, sm, h>>

\* what no driving call of an operator assigns
inputs == <<kind, left_tuples, right_tuples, left_schema, right_schema, fault, u, w>>

----------------------------------------------------------------------------
(* Bounds of the model *)

MaxLen == 2         \* longest child stream of the enumerated family
MaxExtra == 1       \* next calls followed after a child ran past its end
MaxReopen == 2      \* opens of a hash join without a close in between

----------------------------------------------------------------------------
(* Option<T>, Field, Tuple *)

None == <<>>

Some(x) == <<x>>

\* Option<&Field> is ordered with None below every Some (derive(PartialOrd))
OptLt(a, b) == IF a = None THEN b # None ELSE (b # None /\ a[1] < b[1])

OptGt(a, b) == OptLt(b, a)

get_field(t, i) == IF i < Len(t) THEN Some(t[i + 1]) ELSE None

merge(t, other) == t \o other

\* Vec::get
VecGet(v, i) == IF i < Len(v) THEN Some(v[i + 1]) ELSE None

Ops == {"Equals", "GreaterThan", "LessThan", "LessThanOrEq", "GreaterThanOrEq",
        "NotEq", "All"}

compare(op, l, r) ==
    CASE op = "Equals" -> l = r
      [] op = "GreaterThan" -> l > r
      [] op = "LessThan" -> l < r
      [] op = "LessThanOrEq" -> l <= r
      [] op = "GreaterThanOrEq" -> l >= r
      [] op = "NotEq" -> l # r
      [] op = "All" -> TRUE

\* JoinPredicate::cmp panics (unwrap of None) on an index out of range
cmp_panics(p, lt, rt) ==
    get_field(lt, p.left_index) = None \/ get_field(rt, p.right_index) = None

cmp(p, lt, rt) ==
    compare(p.op, get_field(lt, p.left_index)[1], get_field(rt, p.right_index)[1])

----------------------------------------------------------------------------
(* TableSchema *)

Attribute(name, dtype) == [name |-> name, dtype |-> dtype, constraint |-> "None"]

\* TableSchema::new: name_map keeps, for every name, the last index carrying it
TableSchemaNew(attrs) ==
    [attributes |-> attrs,
     name_map |-> [n \in {attrs[i].name : i \in DOMAIN attrs} |->
                     CHOOSE i \in 0..(Len(attrs) - 1) :
                        /\ attrs[i + 1].name = n
                        /\ \A j \in (i + 1)..(Len(attrs) - 1) : attrs[j + 1].name # n]]

\* a merge that appends self to other
schema_merge_swapped(a, b) == TableSchemaNew(b.attributes \o a.attributes)

schema_merge(a, b) == TableSchemaNew(a.attributes \o b.attributes)

----------------------------------------------------------------------------
(* TupleIterator: index is None (opened = FALSE) or Some(index) *)

IterNew == [opened |-> FALSE, index |-> 0]

IterOpen(c) == [opened |-> TRUE, index |-> 0]

IterClose(c) == [opened |-> FALSE, index |-> 0]

IterNextPanics(c) == ~c.opened

IterNextTuple(c, tuples) == VecGet(tuples, c.index)

IterNext(c) == [c EXCEPT !.index = c.index + 1]

IterRewindPanics(c) == ~c.opened

IterRewind(c) == IterOpen(IterClose(c))

\* a child whose calls all return Ok
NoFault == [side |-> "none", op |-> "none", at |-> 0, e |-> "none"]

\* the call op on child c of the given side returns Err(fault.e): every open,
\* rewind or close of the faulty child, and its next at position fault.at (which
\* still moves the child past that position)
ChildErr(side, op, c) ==
    /\ fault.side = side
    /\ fault.op = op
    /\ op = "next" => c.index = fault.at

----------------------------------------------------------------------------
(* The caller's record of the calls it made *)

HNew ==
    [call |-> "new", ret |-> "ok", why |-> "", t |-> <<>>, out |-> <<>>,
     drain |-> "idle", start |-> "none", prev_ok |-> FALSE, prev_out |-> <<>>]

\* start tells an open of an operator that was not open ("open") from an open
\* called again with no close in between ("reopen"); drain is "failed" from a call
\* that returned a child's error until the next open or close that returns Ok
HAfterOpen(ret, why, was_open) ==
    [call |-> "open", ret |-> ret, why |-> why, t |-> <<>>, out |-> <<>>,
     drain |-> CASE ret = "ok" -> "active" [] ret = "err" -> "failed" [] OTHER -> "idle",
     start |-> IF was_open THEN "reopen" ELSE "open",
     prev_ok |-> FALSE, prev_out |-> <<>>]

HAfterNext(ret, why, t) ==
    [h EXCEPT !.call = "next", !.ret = ret, !.why = why, !.t = t,
              !.out = IF ret = "some" THEN Append(h.out, t) ELSE h.out,
              !.drain = CASE ret = "panic" -> h.drain
                          [] ret = "err" \/ h.drain = "failed" -> "failed"
                          [] h.drain = "active" /\ ret = "some" -> "active"
                          [] h.drain = "active" /\ ret = "none" -> "eos"
                          [] OTHER -> "past"]

HAfterRewind(ret, why) ==
    [call |-> "rewind", ret |-> ret, why |-> why, t |-> <<>>, out |-> <<>>,
     drain |-> CASE ret = "ok" /\ h.drain # "failed" -> "active"
                 [] ret = "err" \/ h.drain = "failed" -> "failed"
                 [] OTHER -> "idle",
     start |-> "rewind",
     prev_ok |-> (h.drain = "eos" /\ h.start = "open"),
     prev_out |-> IF h.drain = "eos" /\ h.start = "open" THEN h.out ELSE <<>>]

HAfterClose(ret, why) ==
    [call |-> "close", ret |-> ret, why |-> why, t |-> <<>>, out |-> <<>>,
     drain |-> IF ret = "err" THEN "failed" ELSE "idle",
     start |-> "none", prev_ok |-> FALSE, prev_out |-> <<>>]

Running == h.ret # "panic"

\* the child iterators have not run further past their end than the model follows
ChildrenInRange(j) ==
    /\ j.left_child.index <= Len(left_tuples) + MaxExtra
    /\ j.right_child.index <= Len(right_tuples) + MaxExtra

----------------------------------------------------------------------------
(* Nested-loop join: struct Join *)

JoinPredicateNew(op, left_index, right_index) ==
    [op |-> op, left_index |-> left_index, right_index |-> right_index]

JoinNew(p) ==
    [predicate |-> p,
     schema |-> schema_merge(left_schema, right_schema),
     left_child |-> IterNew,
     right_child |-> IterNew,
     open |-> FALSE,
     left_tuple_cur |-> <<>>]

\* an open that keeps the current left tuple when the left child has no tuple
JoinOpenResult_EmptyLeftOk ==
    LET flagged == [nl EXCEPT !.open = TRUE] IN
    IF ChildErr("left", "open", nl.left_child)
    THEN [ret |-> "err", why |-> fault.e, j |-> flagged]
    ELSE
    LET lc == IterOpen(nl.left_child)
        first == IterNextTuple(lc, left_tuples)
        opened == [flagged EXCEPT !.left_child = IterNext(lc)]
        primed == IF first = None THEN opened
                  ELSE [opened EXCEPT !.left_tuple_cur = first[1]]
    IN  IF ChildErr("left", "next", lc)
        THEN [ret |-> "err", why |-> fault.e, j |-> opened]
        ELSE IF ChildErr("right", "open", nl.right_child)
        THEN [ret |-> "err", why |-> fault.e, j |-> primed]
        ELSE [ret |-> "ok", why |-> "",
              j |-> [primed EXCEPT !.right_child = IterOpen(nl.right_child)]]

\* Join::open: the flag is set first, then the left child is opened and primed
\* and the right child opened; ? returns a child's Err at once
JoinOpenResult ==
    LET flagged == [nl EXCEPT !.open = TRUE] IN
    IF ChildErr("left", "open", nl.left_child)
    THEN [ret |-> "err", why |-> fault.e, j |-> flagged]
    ELSE
    LET lc == IterOpen(nl.left_child)
        first == IterNextTuple(lc, left_tuples)
        opened == [flagged EXCEPT !.left_child = IterNext(lc)]
    IN  IF ChildErr("left", "next", lc)
        THEN [ret |-> "err", why |-> fault.e, j |-> opened]
        ELSE IF first = None
        THEN [ret |-> "panic", why |-> "unwrap_none", j |-> opened]
        ELSE IF ChildErr("right", "open", nl.right_child)
        THEN [ret |-> "err", why |-> fault.e,
              j |-> [opened EXCEPT !.left_tuple_cur = first[1]]]
        ELSE [ret |-> "ok", why |-> "",
              j |-> [opened EXCEPT !.left_tuple_cur = first[1],
                                   !.right_child = IterOpen(nl.right_child)]]

JoinOpen ==
    /\ kind = "NL"
    /\ Running
    /\ LET r == JoinOpenResult IN
        /\ nl' = r.j
        /\ h' = HAfterOpen(r.ret, r.why, nl.open)
    /\ UNCHANGED <<inputs, hj, sm>>

\* the body of Join::next after the open check: scan the right child for a match
\* with the current left tuple; at its end take the next left tuple, rewind the
\* right child and call next again
RECURSIVE join_next(_, _, _)
join_next(cur, lc, rc) ==
    IF IterNextPanics(rc)
    THEN [ret |-> "panic", why |-> "child_not_open", t |-> <<>>,
          cur |-> cur, lc |-> lc, rc |-> rc]
    ELSE
    LET r == IterNextTuple(rc, right_tuples)
        rc1 == IterNext(rc)
    IN  IF ChildErr("right", "next", rc)
        THEN [ret |-> "err", why |-> fault.e, t |-> <<>>,
              cur |-> cur, lc |-> lc, rc |-> rc1]
        ELSE IF r # None
        THEN IF cmp_panics(nl.predicate, cur, r[1])
             THEN [ret |-> "panic", why |-> "unwrap_none", t |-> <<>>,
                   cur |-> cur, lc |-> lc, rc |-> rc1]
             ELSE IF cmp(nl.predicate, cur, r[1])
                  THEN [ret |-> "some", why |-> "", t |-> merge(cur, r[1]),
                        cur |-> cur, lc |-> lc, rc |-> rc1]
                  ELSE join_next(cur, lc, rc1)
        ELSE IF IterNextPanics(lc)
             THEN [ret |-> "panic", why |-> "child_not_open", t |-> <<>>,
                   cur |-> cur, lc |-> lc, rc |-> rc1]
             ELSE
             LET l == IterNextTuple(lc, left_tuples)
                 lc1 == IterNext(lc)
             IN  IF ChildErr("left", "next", lc)
                 THEN [ret |-> "err", why |-> fault.e, t |-> <<>>,
                       cur |-> cur, lc |-> lc1, rc |-> rc1]
                 ELSE IF l = None
                 THEN [ret |-> "none", why |-> "", t |-> <<>>,
                       cur |-> cur, lc |-> lc1, rc |-> rc1]
                 ELSE IF ChildErr("right", "rewind", rc1)
                 THEN [ret |-> "err", why |-> fault.e, t |-> <<>>,
                       cur |-> l[1], lc |-> lc1, rc |-> rc1]
                 ELSE join_next(l[1], lc1, IterRewind(rc1))

JoinNext ==
    /\ kind = "NL"
    /\ Running
    /\ ChildrenInRange(nl)
    /\ IF ~nl.open
       THEN /\ h' = HAfterNext("panic", "not_open", <<>>)
            /\ nl' = nl
       ELSE LET r == join_next(nl.left_tuple_cur, nl.left_child, nl.right_child) IN
            /\ nl' = [nl EXCEPT !.left_tuple_cur = r.cur,
                                !.left_child = r.lc,
                                !.right_child = r.rc]
            /\ h' = HAfterNext(r.ret, r.why, r.t)
    /\ UNCHANGED <<inputs, hj, sm>>

\* a close that goes on after the left child's close returned Err
JoinCloseResult_IgnoresLeftErr ==
    LET left_closed == [nl EXCEPT !.left_child = IterClose(nl.left_child)] IN
    IF ChildErr("right", "close", nl.right_child)
    THEN [ret |-> "err", why |-> fault.e, j |-> left_closed]
    ELSE [ret |-> "ok", why |-> "",
          j |-> [left_closed EXCEPT !.right_child = IterClose(nl.right_child),
                                    !.open = FALSE]]

\* Join::close after the open check: the flag is cleared after both children
\* were closed
JoinCloseResult ==
    IF ChildErr("left", "close", nl.left_child)
    THEN [ret |-> "err", why |-> fault.e, j |-> nl]
    ELSE
    LET left_closed == [nl EXCEPT !.left_child = IterClose(nl.left_child)] IN
    IF ChildErr("right", "close", nl.right_child)
    THEN [ret |-> "err", why |-> fault.e, j |-> left_closed]
    ELSE [ret |-> "ok", why |-> "",
          j |-> [left_closed EXCEPT !.right_child = IterClose(nl.right_child),
                                    !.open = FALSE]]

JoinClose ==
    /\ kind = "NL"
    /\ Running
    /\ IF ~nl.open
       THEN /\ h' = HAfterClose("panic", "not_open")
            /\ nl' = nl
       ELSE LET r == JoinCloseResult IN
            /\ nl' = r.j
            /\ h' = HAfterClose(r.ret, r.why)
    /\ UNCHANGED <<inputs, hj, sm>>

\* Join::rewind: rewind both children, prime the current left tuple again
JoinRewindResult ==
    IF IterRewindPanics(nl.left_child)
    THEN [ret |-> "panic", why |-> "child_not_open", j |-> nl]
    ELSE IF ChildErr("left", "rewind", nl.left_child)
    THEN [ret |-> "err", why |-> fault.e, j |-> nl]
    ELSE
    LET lc == IterRewind(nl.left_child)
        left_rewound == [nl EXCEPT !.left_child = lc]
    IN  IF IterRewindPanics(nl.right_child)
        THEN [ret |-> "panic", why |-> "child_not_open", j |-> left_rewound]
        ELSE IF ChildErr("right", "rewind", nl.right_child)
        THEN [ret |-> "err", why |-> fault.e, j |-> left_rewound]
        ELSE
        LET first == IterNextTuple(lc, left_tuples)
            rewound == [nl EXCEPT !.left_child = IterNext(lc),
                                  !.right_child = IterRewind(nl.right_child)]
        IN  IF ChildErr("left", "next", lc)
            THEN [ret |-> "err", why |-> fault.e, j |-> rewound]
            ELSE IF first = None
            THEN [ret |-> "panic", why |-> "unwrap_none", j |-> rewound]
            ELSE [ret |-> "ok", why |-> "",
                  j |-> [rewound EXCEPT !.left_tuple_cur = first[1]]]

JoinRewind ==
    /\ kind = "NL"
    /\ Running
    /\ IF ~nl.open
       THEN /\ h' = HAfterRewind("panic", "not_open")
            /\ nl' = nl
       ELSE LET r == JoinRewindResult IN
            /\ nl' = r.j
            /\ h' = HAfterRewind(r.ret, r.why)
    /\ UNCHANGED <<inputs, hj, sm>>

NextNL == JoinOpen \/ JoinNext \/ JoinClose \/ JoinRewind

----------------------------------------------------------------------------
(* Hash equi-join: struct HashEqJoin.  ht is a function from the keys it    *)
(* holds to the Vec of left tuples with that key.                           *)

EmptyMap == [k \in {} |-> <<>>]

HashEqJoinNew(p) ==
    [predicate |-> p,
     schema |-> schema_merge(left_schema, right_schema),
     left_child |-> IterNew,
     right_child |-> IterNew,
     open |-> FALSE,
     ht |-> EmptyMap,
     field_cur |-> 0,
     index_cur |-> 0,
     right_tuple_cur |-> <<>>]

\* push t on the Vec of its key, or insert the key with vec![t]
ht_insert(ht, field, t) ==
    IF field \in DOMAIN ht
    THEN [ht EXCEPT ![field] = Append(@, t)]
    ELSE [k \in (DOMAIN ht) \cup {field} |-> IF k = field THEN <<t>> ELSE ht[k]]

RECURSIVE SumLen(_, _)
SumLen(ht, keys) ==
    IF keys = {} THEN 0
    ELSE LET k == CHOOSE x \in keys : TRUE IN Len(ht[k]) + SumLen(ht, keys \ {k})

HtSize(ht) == SumLen(ht, DOMAIN ht)

\* the build loop of HashEqJoin::open: drain the left child into ht
RECURSIVE hj_build(_, _)
hj_build(ht, lc) ==
    LET t == IterNextTuple(lc, left_tuples)
        lc1 == IterNext(lc)
    IN  IF ChildErr("left", "next", lc)
        THEN [ret |-> "err", why |-> fault.e, ht |-> ht, lc |-> lc1]
        ELSE IF t = None
        THEN [ret |-> "ok", why |-> "", ht |-> ht, lc |-> lc1]
        ELSE LET field == get_field(t[1], hj.predicate.left_index) IN
             IF field = None
             THEN [ret |-> "panic", why |-> "unwrap_none", ht |-> ht, lc |-> lc1]
             ELSE hj_build(ht_insert(ht, field[1], t[1]), lc1)

\* HashEqJoin::partial_open: first right tuple whose key is in ht, if any
RECURSIVE partial_open(_)
partial_open(j) ==
    LET t == IterNextTuple(j.right_child, right_tuples)
        rc1 == IterNext(j.right_child)
    IN  IF ChildErr("right", "next", j.right_child)
        THEN [ret |-> "err", why |-> fault.e, j |-> [j EXCEPT !.right_child = rc1]]
        ELSE IF t = None
        THEN [ret |-> "ok", why |-> "", j |-> [j EXCEPT !.right_child = rc1]]
        ELSE LET field == get_field(t[1], j.predicate.right_index) IN
             IF field = None
             THEN [ret |-> "panic", why |-> "unwrap_none",
                   j |-> [j EXCEPT !.right_child = rc1]]
             ELSE IF field[1] \in DOMAIN j.ht
                  THEN [ret |-> "ok", why |-> "",
                        j |-> [j EXCEPT !.field_cur = field[1],
                                        !.index_cur = 0,
                                        !.right_tuple_cur = t[1],
                                        !.right_child = rc1]]
                  ELSE partial_open([j EXCEPT !.right_child = rc1])

HashEqJoinOpenResult ==
    IF ChildErr("left", "open", hj.left_child)
    THEN [ret |-> "err", why |-> fault.e, j |-> [hj EXCEPT !.open = TRUE]]
    ELSE
    LET b == hj_build(hj.ht, IterOpen(hj.left_child))
        built == [hj EXCEPT !.open = TRUE, !.ht = b.ht, !.left_child = b.lc]
    IN  IF b.ret # "ok"
        THEN [ret |-> b.ret, why |-> b.why, j |-> built]
        ELSE IF ChildErr("right", "open", hj.right_child)
        THEN [ret |-> "err", why |-> fault.e, j |-> built]
        ELSE partial_open([built EXCEPT !.right_child = IterOpen(hj.right_child)])

HashEqJoinOpen ==
    /\ kind = "HJ"
    /\ Running
    /\ HtSize(hj.ht) + Len(left_tuples) <= MaxReopen * Len(left_tuples)
    /\ LET r == HashEqJoinOpenResult IN
        /\ hj' = r.j
        /\ h' = HAfterOpen(r.ret, r.why, hj.open)
    /\ UNCHANGED <<inputs, nl, sm>>

\* the probe loop of HashEqJoin::next
RECURSIVE hj_probe(_)
hj_probe(j) ==
    LET t == IterNextTuple(j.right_child, right_tuples)
        rc1 == IterNext(j.right_child)
    IN  IF IterNextPanics(j.right_child)
        THEN [ret |-> "panic", why |-> "child_not_open", t |-> <<>>, j |-> j]
        ELSE IF ChildErr("right", "next", j.right_child)
        THEN [ret |-> "err", why |-> fault.e, t |-> <<>>,
              j |-> [j EXCEPT !.right_child = rc1]]
        ELSE IF t = None
        THEN [ret |-> "none", why |-> "", t |-> <<>>,
              j |-> [j EXCEPT !.right_child = rc1]]
        ELSE LET field == get_field(t[1], j.predicate.right_index) IN
             IF field = None
             THEN [ret |-> "panic", why |-> "unwrap_none", t |-> <<>>,
                   j |-> [j EXCEPT !.right_child = rc1]]
             ELSE IF field[1] \in DOMAIN j.ht
                  THEN [ret |-> "some", why |-> "",
                        t |-> merge(j.ht[field[1]][1], t[1]),
                        j |-> [j EXCEPT !.field_cur = field[1],
                                        !.index_cur = 1,
                                        !.right_tuple_cur = t[1],
                                        !.right_child = rc1]]
                  ELSE hj_probe([j EXCEPT !.right_child = rc1])

\* a next that moves the cursor back to the start of the group when the right
\* child is at its end
HashEqJoinNextResult_RestartsGroup ==
    IF hj.field_cur \notin DOMAIN hj.ht
    THEN [ret |-> "panic", why |-> "missing_key", t |-> <<>>, j |-> hj]
    ELSE LET g == VecGet(hj.ht[hj.field_cur], hj.index_cur) IN
         IF g # None
         THEN [ret |-> "some", why |-> "", t |-> merge(g[1], hj.right_tuple_cur),
               j |-> [hj EXCEPT !.index_cur = hj.index_cur + 1]]
         ELSE LET r == hj_probe(hj) IN
              IF r.ret = "none" THEN [r EXCEPT !.j.index_cur = 0] ELSE r

\* HashEqJoin::next on an open operator; ht[&field_cur] panics on a missing key
HashEqJoinNextResult ==
    IF hj.field_cur \notin DOMAIN hj.ht
    THEN [ret |-> "panic", why |-> "missing_key", t |-> <<>>, j |-> hj]
    ELSE LET g == VecGet(hj.ht[hj.field_cur], hj.index_cur) IN
         IF g # None
         THEN [ret |-> "some", why |-> "", t |-> merge(g[1], hj.right_tuple_cur),
               j |-> [hj EXCEPT !.index_cur = hj.index_cur + 1]]
         ELSE hj_probe(hj)

HashEqJoinNext ==
    /\ kind = "HJ"
    /\ Running
    /\ ChildrenInRange(hj)
    /\ IF ~hj.open
       THEN /\ h' = HAfterNext("panic", "not_open", <<>>)
            /\ hj' = hj
       ELSE LET r == HashEqJoinNextResult IN
            /\ hj' = r.j
            /\ h' = HAfterNext(r.ret, r.why, r.t)
    /\ UNCHANGED <<inputs, nl, sm>>

\* HashEqJoin::close after the open check: the table is cleared and the flag
\* reset after both children were closed
HashEqJoinCloseResult ==
    IF ChildErr("left", "close", hj.left_child)
    THEN [ret |-> "err", why |-> fault.e, j |-> hj]
    ELSE
    LET left_closed == [hj EXCEPT !.left_child = IterClose(hj.left_child)] IN
    IF ChildErr("right", "close", hj.right_child)
    THEN [ret |-> "err", why |-> fault.e, j |-> left_closed]
    ELSE [ret |-> "ok", why |-> "",
          j |-> [left_closed EXCEPT !.right_child = IterClose(hj.right_child),
                                    !.ht = EmptyMap,
                                    !.open = FALSE]]

HashEqJoinClose ==
    /\ kind = "HJ"
    /\ Running
    /\ IF ~hj.open
       THEN /\ h' = HAfterClose("panic", "not_open")
            /\ hj' = hj
       ELSE LET r == HashEqJoinCloseResult IN
            /\ hj' = r.j
            /\ h' = HAfterClose(r.ret, r.why)
    /\ UNCHANGED <<inputs, nl, sm>>

\* a rewind that also rewinds the left child
HashEqJoinRewind_RewindsLeft ==
    /\ kind = "HJ"
    /\ Running
    /\ IF ~hj.open
       THEN /\ h' = HAfterRewind("panic", "not_open")
            /\ hj' = hj
       ELSE IF IterRewindPanics(hj.right_child)
       THEN /\ h' = HAfterRewind("panic", "child_not_open")
            /\ hj' = hj
       ELSE IF ChildErr("right", "rewind", hj.right_child)
       THEN /\ h' = HAfterRewind("err", fault.e)
            /\ hj' = hj
       ELSE LET r == partial_open([hj EXCEPT !.right_child = IterRewind(hj.right_child),
                                             !.left_child = IterRewind(hj.left_child)]) IN
            /\ hj' = r.j
            /\ h' = HAfterRewind(r.ret, r.why)
    /\ UNCHANGED <<inputs, nl, sm>>

HashEqJoinRewind ==
    /\ kind = "HJ"
    /\ Running
    /\ IF ~hj.open
       THEN /\ h' = HAfterRewind("panic", "not_open")
            /\ hj' = hj
       ELSE IF IterRewindPanics(hj.right_child)
       THEN /\ h' = HAfterRewind("panic", "child_not_open")
            /\ hj' = hj
       ELSE IF ChildErr("right", "rewind", hj.right_child)
       THEN /\ h' = HAfterRewind("err", fault.e)
            /\ hj' = hj
       ELSE LET r == partial_open([hj EXCEPT !.right_child = IterRewind(hj.right_child)]) IN
            /\ hj' = r.j
            /\ h' = HAfterRewind(r.ret, r.why)
    /\ UNCHANGED <<inputs, nl, sm>>

NextHJ == HashEqJoinOpen \/ HashEqJoinNext \/ HashEqJoinClose \/ HashEqJoinRewind

----------------------------------------------------------------------------
(* Sort-merge join: the helper functions *)

compare_min(a, b, index) ==
    IF OptLt(get_field(a, index), get_field(b, index)) THEN a ELSE b

compare_max(a, b, index) ==
    IF OptGt(get_field(a, index), get_field(b, index)) THEN a ELSE b

\* temp = compare_min(run[i], run[j]); run[j] = compare_max(run[i], run[j]);
\* run[i] = temp
min_max_step(run, i, j, index) ==
    [run EXCEPT ![i + 1] = compare_min(run[i + 1], run[j + 1], index),
                ![j + 1] = compare_max(run[i + 1], run[j + 1], index)]

\* run[0..3] are indexed: a shorter run panics (index out of bounds)
sort_run_l1_panics(run) == Len(run) < 4

\* a network that leaves out the last compare-exchange (1, 2)
sort_run_l1_four_steps(run, index) ==
    LET s1 == min_max_step(run, 0, 1, index)
        s2 == min_max_step(s1, 2, 3, index)
        s3 == min_max_step(s2, 0, 2, index)
    IN  min_max_step(s3, 1, 3, index)

sort_run_l1(run, index) ==
    LET s1 == min_max_step(run, 0, 1, index)
        s2 == min_max_step(s1, 2, 3, index)
        s3 == min_max_step(s2, 0, 2, index)
        s4 == min_max_step(s3, 1, 3, index)
    IN  min_max_step(s4, 1, 2, index)

\* if compare_max(run[i], run[j], index) == run[i] { run.swap(i, j) }
swap_step(run, i, j, index) ==
    IF compare_max(run[i + 1], run[j + 1], index) = run[i + 1]
    THEN [run EXCEPT ![i + 1] = run[j + 1], ![j + 1] = run[i + 1]]
    ELSE run

sort_run_l2_panics(run) == Len(run) < 8

L2Wiring ==
    << <<3, 7>>, <<2, 6>>, <<1, 5>>, <<0, 4>>,
       <<0, 2>>, <<5, 7>>, <<1, 3>>, <<4, 6>>,
       <<0, 1>>, <<2, 3>>, <<4, 5>>, <<6, 7>> >>

RECURSIVE swap_steps(_, _, _)
swap_steps(run, k, index) ==
    IF k > Len(L2Wiring) THEN run
    ELSE swap_steps(swap_step(run, L2Wiring[k][1], L2Wiring[k][2], index), k + 1, index)

\* a network that starts at the second stage, without the swaps (i, i + 4)
sort_run_l2_from_second_stage(run, index) == swap_steps(run, 5, index)

sort_run_l2(run, index) == swap_steps(run, 1, index)

\* a worker that panics makes handle.join().unwrap() panic in the caller
sort_runs_panics(runs, level) ==
    \E k \in DOMAIN runs :
        IF level = 1 THEN sort_run_l1_panics(runs[k]) ELSE sort_run_l2_panics(runs[k])

\* one worker per run; the handles are joined in spawn order
sort_runs(runs, index, level) ==
    [k \in DOMAIN runs |->
        IF level = 1 THEN sort_run_l1(runs[k], index) ELSE sort_run_l2(runs[k], index)]

Reverse(s) == [k \in DOMAIN s |-> s[Len(s) + 1 - k]]

\* a pairing that appends the second run of a pair as it is, not reversed
merge_1_to_2_unreversed(runs) ==
    [k \in 1..(Len(runs) \div 2) |-> runs[2 * k - 1] \o runs[2 * k]]

\* odd-numbered runs (counter 1, 3, ..) open a level-2 run, even-numbered ones are
\* appended reversed and the pair is pushed; a last unpaired run is never pushed
merge_1_to_2(runs) ==
    [k \in 1..(Len(runs) \div 2) |-> runs[2 * k - 1] \o Reverse(runs[2 * k])]

RECURSIVE Flatten(_)
Flatten(runs) == IF runs = <<>> THEN <<>> ELSE Head(runs) \o Flatten(Tail(runs))

\* Rust integer division truncates toward zero
TruncDiv(a, b) ==
    IF a >= 0 \/ a % b = 0 THEN a \div b ELSE (a \div b) + 1

\* the range of i32, the type of Field::IntField
i32_MAX == 2147483647

i32_MIN == -i32_MAX - 1

\* a - b, a + b and a * 2 on i32: whether the exact result is out of range,
\* and the result of the wrapping operation (the exact one when in range)
sub_i32(a, b) ==
    IF b < 0 /\ a > i32_MAX + b
    THEN [ovf |-> TRUE, val |-> ((a + i32_MIN) - b) + i32_MIN]
    ELSE IF b > 0 /\ a < i32_MIN + b
    THEN [ovf |-> TRUE, val |-> ((a - i32_MIN) - b) - i32_MIN]
    ELSE [ovf |-> FALSE, val |-> a - b]

add_i32(a, b) ==
    IF b > 0 /\ a > i32_MAX - b
    THEN [ovf |-> TRUE, val |-> (a + i32_MIN) + (b + i32_MIN)]
    ELSE IF b < 0 /\ a < i32_MIN - b
    THEN [ovf |-> TRUE, val |-> (a - i32_MIN) + (b - i32_MIN)]
    ELSE [ovf |-> FALSE, val |-> a + b]

mul2_i32(a) ==
    IF a > i32_MAX \div 2
    THEN [ovf |-> TRUE, val |-> (a + i32_MIN) * 2]
    ELSE IF a < i32_MIN \div 2
    THEN [ovf |-> TRUE, val |-> (a - i32_MIN) * 2]
    ELSE [ovf |-> FALSE, val |-> a * 2]

\* the cut points of sort_m_way_l3: min_val + (max_val - min_val) / 3 and
\* min_val + (max_val - min_val) * 2 / 3 in i32; ovf tells that an operation
\* left the range of i32, where a build with overflow checks aborts and a build
\* without them goes on with the wrapped value
cut_points(min_val, max_val) ==
    LET d == sub_i32(max_val, min_val)
        s1 == add_i32(min_val, TruncDiv(d.val, 3))
        m == mul2_i32(d.val)
        s2 == add_i32(min_val, TruncDiv(m.val, 3))
    IN  [ovf |-> d.ovf \/ s1.ovf \/ m.ovf \/ s2.ovf,
         one_third |-> s1.val, two_third |-> s2.val]

\* Vec::sort_by is a stable sort: insert each element after the elements not above it
RECURSIVE InsertSorted(_, _, _)
InsertSorted(sorted, t, index) ==
    IF sorted = <<>> THEN <<t>>
    ELSE IF get_field(Head(sorted), index)[1] <= get_field(t, index)[1]
         THEN <<Head(sorted)>> \o InsertSorted(Tail(sorted), t, index)
         ELSE <<t>> \o sorted

\* a bucket left in the order of arrival
sort_by_key_skipped(s, index) == s

RECURSIVE sort_by_key(_, _)
sort_by_key(s, index) ==
    IF s = <<>> THEN <<>>
    ELSE InsertSorted(sort_by_key(SubSeq(s, 1, Len(s) - 1), index), s[Len(s)], index)

\* the unwraps of sort_m_way_l3: the key of min, of max and of every tuple
sort_m_way_l3_panics(runs, min, max, index) ==
    \/ get_field(min, index) = None
    \/ get_field(max, index) = None
    \/ \E k \in DOMAIN Flatten(runs) : get_field(Flatten(runs)[k], index) = None

\* a partition whose second bucket takes every key up to two_third
sort_m_way_l3_overlapping(runs, min, max, index) ==
    LET min_val == get_field(min, index)[1]
        max_val == get_field(max, index)[1]
        one_third == min_val + TruncDiv(max_val - min_val, 3)
        two_third == min_val + TruncDiv((max_val - min_val) * 2, 3)
        all == Flatten(runs)
        key(t) == get_field(t, index)[1]
        res_1 == SelectSeq(all, LAMBDA t : key(t) <= one_third)
        res_2 == SelectSeq(all, LAMBDA t : key(t) <= two_third)
        res_3 == SelectSeq(all, LAMBDA t : ~(key(t) <= one_third) /\ ~(key(t) <= two_third))
    IN  <<sort_by_key(res_1, index), sort_by_key(res_2, index), sort_by_key(res_3, index)>>

sort_m_way_l3(runs, min, max, index) ==
    LET min_val == get_field(min, index)[1]
        max_val == get_field(max, index)[1]
        one_third == cut_points(min_val, max_val).one_third
        two_third == cut_points(min_val, max_val).two_third
        all == Flatten(runs)
        key(t) == get_field(t, index)[1]
        res_1 == SelectSeq(all, LAMBDA t : key(t) <= one_third)
        res_2 == SelectSeq(all, LAMBDA t : ~(key(t) <= one_third) /\ key(t) <= two_third)
        res_3 == SelectSeq(all, LAMBDA t : ~(key(t) <= one_third) /\ ~(key(t) <= two_third))
    IN  <<sort_by_key(res_1, index), sort_by_key(res_2, index), sort_by_key(res_3, index)>>

\* a scan that also breaks on a right key equal to the left key
RECURSIVE scan_right_break_on_equal(_, _, _, _)
scan_right_break_on_equal(t, right_run, k, pre) ==
    IF k > Len(right_run) THEN [panic |-> FALSE, res |-> <<>>]
    ELSE LET t_r == right_run[k] IN
         IF cmp_panics(pre, t, t_r) THEN [panic |-> TRUE, res |-> <<>>]
         ELSE IF get_field(t_r, pre.right_index)[1] >= get_field(t, pre.left_index)[1]
              THEN [panic |-> FALSE, res |-> <<>>]
              ELSE LET rest == scan_right_break_on_equal(t, right_run, k + 1, pre) IN
                   [panic |-> rest.panic,
                    res |-> IF cmp(pre, t, t_r) THEN <<merge(t, t_r)>> \o rest.res
                                                ELSE rest.res]

\* the scan of one right run for one left tuple, from position k (1-based):
\* break at the first right key above the left key
RECURSIVE scan_right(_, _, _, _)
scan_right(t, right_run, k, pre) ==
    IF k > Len(right_run) THEN [panic |-> FALSE, res |-> <<>>]
    ELSE LET t_r == right_run[k] IN
         IF cmp_panics(pre, t, t_r) THEN [panic |-> TRUE, res |-> <<>>]
         ELSE IF get_field(t_r, pre.right_index)[1] > get_field(t, pre.left_index)[1]
              THEN [panic |-> FALSE, res |-> <<>>]
              ELSE LET rest == scan_right(t, right_run, k + 1, pre) IN
                   [panic |-> rest.panic,
                    res |-> IF cmp(pre, t, t_r) THEN <<merge(t, t_r)>> \o rest.res
                                                ELSE rest.res]

\* one left tuple against the right runs in order
RECURSIVE scan_right_runs(_, _, _, _)
scan_right_runs(t, right_runs, k, pre) ==
    IF k > Len(right_runs) THEN [panic |-> FALSE, res |-> <<>>]
    ELSE LET here == scan_right(t, right_runs[k], 1, pre)
             rest == scan_right_runs(t, right_runs, k + 1, pre)
         IN  [panic |-> here.panic \/ rest.panic, res |-> here.res \o rest.res]

RECURSIVE join_runs(_, _, _, _)
join_runs(run, right_runs, k, pre) ==
    IF k > Len(run) THEN [panic |-> FALSE, res |-> <<>>]
    ELSE LET here == scan_right_runs(run[k], right_runs, 1, pre)
             rest == join_runs(run, right_runs, k + 1, pre)
         IN  [panic |-> here.panic \/ rest.panic, res |-> here.res \o rest.res]

\* a scan of the right run from its last tuple to its first
join_m_way_right_reversed(run, right_run, pre) ==
    join_runs(run, <<Reverse(right_run)>>, 1, pre)

join_m_way(run, right_run, pre) == join_runs(run, <<right_run>>, 1, pre)

\* a scan of the right runs as one run: a break ends the scan of all of them
join_m_pass_one_scan(run, right_runs, pre) ==
    join_runs(run, <<Flatten(right_runs)>>, 1, pre)

join_m_pass(run, right_runs, pre) == join_runs(run, right_runs, 1, pre)

----------------------------------------------------------------------------
(* Sort-merge join: struct SortMergeJoin *)

RunLen == 4

MinSentinel == <<999999, 999999, 999999, 999999>>

SortMergeJoinNew(p, sort_merge_method) ==
    [predicate |-> p,
     schema |-> schema_merge(left_schema, right_schema),
     left_child |-> IterNew,
     right_child |-> IterNew,
     open |-> FALSE,
     sort_merge_method |-> sort_merge_method,
     l3_runs_l |-> <<>>,
     l3_runs_r |-> <<>>,
     min_r |-> MinSentinel,
     max_r |-> <<>>]

\* the split loops of open: a run is pushed when it holds RunLen tuples and one
\* more arrives; what is left (possibly nothing) is pushed after the loop
RECURSIVE split_runs(_)
split_runs(ts) ==
    IF Len(ts) <= RunLen THEN <<ts>>
    ELSE <<SubSeq(ts, 1, RunLen)>> \o split_runs(SubSeq(ts, RunLen + 1, Len(ts)))

\* a child after next was called until it returned None
IterDrained(c, tuples) == [opened |-> TRUE, index |-> Len(tuples) + 1]

\* a split loop calls next at the positions 0..Len(tuples): one of them returns Err
IterFailsAt(side, tuples) ==
    \E i \in 0..Len(tuples) : ChildErr(side, "next", [opened |-> TRUE, index |-> i])

\* the child after the next call that returned Err
IterFailed(c) == [opened |-> TRUE, index |-> fault.at + 1]

\* the min/max loop of open over the tuples of the right level-2 runs
RECURSIVE min_max_scan(_, _, _, _, _)
min_max_scan(ts, k, min, max, index) ==
    IF k > Len(ts) THEN [min |-> min, max |-> max]
    ELSE LET t == ts[k]
             max1 == IF compare_max(t, max, index) = t THEN t ELSE max
             min1 == IF compare_min(t, min, index) = t THEN t ELSE min
         IN  min_max_scan(ts, k + 1, min1, max1, index)

SortMergeJoinOpenResult ==
    LET left_index == sm.predicate.left_index
        right_index == sm.predicate.right_index
        base == [sm EXCEPT !.open = TRUE,
                           !.left_child = IterDrained(sm.left_child, left_tuples),
                           !.right_child = IterDrained(sm.right_child, right_tuples)]
        l1_l == split_runs(left_tuples)
        l1_r == split_runs(right_tuples)
    IN  IF ChildErr("left", "open", sm.left_child)
        THEN [ret |-> "err", why |-> fault.e, j |-> [sm EXCEPT !.open = TRUE]]
        ELSE IF ChildErr("right", "open", sm.right_child)
        THEN [ret |-> "err", why |-> fault.e,
              j |-> [sm EXCEPT !.open = TRUE, !.left_child = IterOpen(sm.left_child)]]
        ELSE IF IterFailsAt("left", left_tuples)
        THEN [ret |-> "err", why |-> fault.e,
              j |-> [base EXCEPT !.left_child = IterFailed(sm.left_child),
                                 !.right_child = IterOpen(sm.right_child)]]
        ELSE IF IterFailsAt("right", right_tuples)
        THEN [ret |-> "err", why |-> fault.e,
              j |-> [base EXCEPT !.right_child = IterFailed(sm.right_child)]]
        ELSE IF sort_runs_panics(l1_l, 1) \/ sort_runs_panics(l1_r, 1)
        THEN [ret |-> "panic", why |-> "index", j |-> base]
        ELSE
        LET l2_l == merge_1_to_2(sort_runs(l1_l, left_index, 1))
            l2_r == merge_1_to_2(sort_runs(l1_r, right_index, 1))
        IN  IF sort_runs_panics(l2_l, 2) \/ sort_runs_panics(l2_r, 2)
            THEN [ret |-> "panic", why |-> "index", j |-> base]
            ELSE
            LET l2_runs_l == sort_runs(l2_l, left_index, 2)
                l2_runs_r == sort_runs(l2_r, right_index, 2)
            IN  IF sm.sort_merge_method = 1
                THEN LET mm == min_max_scan(Flatten(l2_runs_r), 1, sm.min_r, sm.max_r,
                                            right_index)
                         scanned == [base EXCEPT !.min_r = mm.min, !.max_r = mm.max]
                     IN  IF sort_m_way_l3_panics(l2_runs_l, mm.min, mm.max, left_index)
                         THEN [ret |-> "panic", why |-> "unwrap_none", j |-> scanned]
                         ELSE
                         LET left_done ==
                                 [scanned EXCEPT !.l3_runs_l =
                                     sort_m_way_l3(l2_runs_l, mm.min, mm.max, left_index)]
                         IN  IF sort_m_way_l3_panics(l2_runs_r, mm.min, mm.max, right_index)
                             THEN [ret |-> "panic", why |-> "unwrap_none", j |-> left_done]
                             ELSE [ret |-> "ok", why |-> "",
                                   j |-> [left_done EXCEPT !.l3_runs_r =
                                       sort_m_way_l3(l2_runs_r, mm.min, mm.max, right_index)]]
                ELSE [ret |-> "ok", why |-> "",
                      j |-> [base EXCEPT !.l3_runs_l = l2_runs_l, !.l3_runs_r = l2_runs_r]]

SortMergeJoinOpen ==
    /\ kind = "SM"
    /\ Running
    /\ LET r == SortMergeJoinOpenResult IN
        /\ sm' = r.j
        /\ h' = HAfterOpen(r.ret, r.why, sm.open)
    /\ UNCHANGED <<inputs, nl, hj>>

\* a next that hands out the first joined tuple instead of end-of-stream
SortMergeJoinNextResult_ReturnsTuple ==
    LET n == Len(sm.l3_runs_l)
        task(i) == IF sm.sort_merge_method = 1
                   THEN IF i > Len(sm.l3_runs_r)
                        THEN [panic |-> TRUE, res |-> <<>>]
                        ELSE join_m_way(sm.l3_runs_l[i], sm.l3_runs_r[i], sm.predicate)
                   ELSE join_m_pass(sm.l3_runs_l[i], sm.l3_runs_r, sm.predicate)
        joined == [i \in 1..n |-> task(i).res]
    IN  IF \E i \in 1..n : task(i).panic
        THEN [ret |-> "panic", why |-> "worker", t |-> <<>>, j |-> sm]
        ELSE IF Flatten(joined) # <<>>
        THEN [ret |-> "some", why |-> "", t |-> Flatten(joined)[1],
              j |-> [sm EXCEPT !.l3_runs_l = joined]]
        ELSE [ret |-> "none", why |-> "", t |-> <<>>,
              j |-> [sm EXCEPT !.l3_runs_l = joined]]

\* the workers of next, one per left run, joined in spawn order; in m-way worker
\* number i indexes right_runs[i]
SortMergeJoinNextResult ==
    LET n == Len(sm.l3_runs_l)
        task(i) == IF sm.sort_merge_method = 1
                   THEN IF i > Len(sm.l3_runs_r)
                        THEN [panic |-> TRUE, res |-> <<>>]
                        ELSE join_m_way(sm.l3_runs_l[i], sm.l3_runs_r[i], sm.predicate)
                   ELSE join_m_pass(sm.l3_runs_l[i], sm.l3_runs_r, sm.predicate)
    IN  IF \E i \in 1..n : task(i).panic
        THEN [ret |-> "panic", why |-> "worker", t |-> <<>>, j |-> sm]
        ELSE [ret |-> "none", why |-> "", t |-> <<>>,
              j |-> [sm EXCEPT !.l3_runs_l = [i \in 1..n |-> task(i).res]]]

\* next is followed up to the second call after end-of-stream was due; after a
\* child's error as long as l3_runs_l holds no tuple joined twice
JoinedOnceAtMost ==
    \A i \in DOMAIN sm.l3_runs_l : \A k \in DOMAIN sm.l3_runs_l[i] :
        Len(sm.l3_runs_l[i][k]) <= Len(left_tuples[1]) + Len(right_tuples[1])

SortMergeJoinNext ==
    /\ kind = "SM"
    /\ Running
    /\ h.drain # "past"
    /\ h.drain = "failed" => JoinedOnceAtMost
    /\ IF ~sm.open
       THEN /\ h' = HAfterNext("panic", "not_open", <<>>)
            /\ sm' = sm
       ELSE LET r == SortMergeJoinNextResult IN
            /\ sm' = r.j
            /\ h' = HAfterNext(r.ret, r.why, r.t)
    /\ UNCHANGED <<inputs, nl, hj>>

\* a close that closes the children and leaves the open flag set
SortMergeJoinClose_LeavesOpen ==
    /\ kind = "SM"
    /\ Running
    /\ IF ~sm.open
       THEN /\ h' = HAfterClose("panic", "not_open")
            /\ sm' = sm
       ELSE /\ sm' = [sm EXCEPT !.left_child = IterClose(sm.left_child),
                                !.right_child = IterClose(sm.right_child)]
            /\ h' = HAfterClose("ok", "")
    /\ UNCHANGED <<inputs, nl, hj>>

SortMergeJoinClose ==
    /\ kind = "SM"
    /\ Running
    /\ IF ~sm.open
       THEN /\ h' = HAfterClose("panic", "not_open")
            /\ sm' = sm
       ELSE IF ChildErr("left", "close", sm.left_child)
       THEN /\ h' = HAfterClose("err", fault.e)
            /\ sm' = sm
       ELSE IF ChildErr("right", "close", sm.right_child)
       THEN /\ h' = HAfterClose("err", fault.e)
            /\ sm' = [sm EXCEPT !.left_child = IterClose(sm.left_child)]
       ELSE /\ sm' = [sm EXCEPT !.left_child = IterClose(sm.left_child),
                                !.right_child = IterClose(sm.right_child),
                                !.open = FALSE]
            /\ h' = HAfterClose("ok", "")
    /\ UNCHANGED <<inputs, nl, hj>>

\* a rewind that leaves min_r and max_r as the last open set them
SortMergeJoinRewindResult_KeepsExtrema ==
    IF IterRewindPanics(sm.left_child)
    THEN [ret |-> "panic", why |-> "child_not_open", j |-> sm]
    ELSE IF ChildErr("left", "rewind", sm.left_child)
    THEN [ret |-> "err", why |-> fault.e, j |-> sm]
    ELSE
    LET left_rewound == [sm EXCEPT !.left_child = IterRewind(sm.left_child)] IN
    IF IterRewindPanics(sm.right_child)
    THEN [ret |-> "panic", why |-> "child_not_open", j |-> left_rewound]
    ELSE IF ChildErr("right", "rewind", sm.right_child)
    THEN [ret |-> "err", why |-> fault.e, j |-> left_rewound]
    ELSE [ret |-> "ok", why |-> "",
          j |-> [left_rewound EXCEPT !.right_child = IterRewind(sm.right_child),
                                     !.l3_runs_l = <<>>,
                                     !.l3_runs_r = <<>>]]

\* SortMergeJoin::rewind after the open check
SortMergeJoinRewindResult ==
    IF IterRewindPanics(sm.left_child)
    THEN [ret |-> "panic", why |-> "child_not_open", j |-> sm]
    ELSE IF ChildErr("left", "rewind", sm.left_child)
    THEN [ret |-> "err", why |-> fault.e, j |-> sm]
    ELSE
    LET left_rewound == [sm EXCEPT !.left_child = IterRewind(sm.left_child)] IN
    IF IterRewindPanics(sm.right_child)
    THEN [ret |-> "panic", why |-> "child_not_open", j |-> left_rewound]
    ELSE IF ChildErr("right", "rewind", sm.right_child)
    THEN [ret |-> "err", why |-> fault.e, j |-> left_rewound]
    ELSE [ret |-> "ok", why |-> "",
          j |-> [left_rewound EXCEPT !.right_child = IterRewind(sm.right_child),
                                     !.l3_runs_l = <<>>,
                                     !.l3_runs_r = <<>>,
                                     !.min_r = MinSentinel,
                                     !.max_r = <<>>]]

\* the caller keeps, besides what next returned, the tuples the drain before
\* the rewind left in l3_runs_l
SortMergeJoinRewind ==
    /\ kind = "SM"
    /\ Running
    /\ IF ~sm.open
       THEN /\ h' = HAfterRewind("panic", "not_open")
            /\ sm' = sm
       ELSE LET r == SortMergeJoinRewindResult IN
            /\ sm' = r.j
            /\ h' = [HAfterRewind(r.ret, r.why) EXCEPT
                        !.prev_out = IF h.drain = "eos" /\ h.start = "open"
                                     THEN Flatten(sm.l3_runs_l) ELSE <<>>]
    /\ UNCHANGED <<inputs, nl, hj>>

NextSM == SortMergeJoinOpen \/ SortMergeJoinNext \/ SortMergeJoinClose \/ SortMergeJoinRewind

----------------------------------------------------------------------------
(* The inputs: the children handed to the constructors, and the predicate *)

SeqsUpTo(S, n) == UNION {[1..m -> S] : m \in 0..n}

\* the enumerated family: left tuples (key, payload), right tuples (key)
Keys == {0, 1}

Payloads == {0, 1}

SmallLeft == SeqsUpTo({<<k, p>> : k \in Keys, p \in Payloads}, MaxLen)

SmallRight == SeqsUpTo({<<k>> : k \in Keys}, MaxLen)

\* get_int_table_schema(width) of the tests, with names to tell the columns apart
IntSchema(names) == TableSchemaNew([i \in DOMAIN names |-> Attribute(names[i], "Int")])

\* scan1 and scan2 of the tests
Scan1 ==
    << <<1, 4>>, <<3, 3>>, <<5, 6>>, <<7, 8>>, <<1, 1>>, <<3, 7>>, <<5, 2>>, <<7, 5>> >>

Scan2 ==
    << <<1, 2, 3>>, <<2, 3, 4>>, <<3, 4, 5>>, <<4, 5, 6>>,
       <<5, 9, 7>>, <<1, 10, 3>>, <<2, 7, 4>>, <<3, 6, 5>> >>

SmallInputs ==
    [l : SmallLeft, r : SmallRight,
     ls : {IntSchema(<<"k", "a">>)}, rs : {IntSchema(<<"k">>)},
     p : {JoinPredicateNew(op, 0, 0) : op \in Ops}, f : {NoFault}]

ScenarioInputs ==
    [l : {Scan1}, r : {Scan2},
     ls : {IntSchema(<<"k", "a">>)}, rs : {IntSchema(<<"k", "b", "c">>)},
     p : {JoinPredicateNew("Equals", 0, 0)}, f : {NoFault}]

IsScenario ==
    /\ left_tuples = Scan1
    /\ right_tuples = Scan2
    /\ nl.predicate = JoinPredicateNew("Equals", 0, 0)
    /\ fault = NoFault

\* the scenario with a child one of whose calls returns Err: the values of
\* CrustyError that stand for e, the positions at which a next fails
Errors == {"IOError", "ExecutionError"}

FaultPositions == {0, 1}

Faults ==
    [side : {"left", "right"}, op : {"open", "rewind", "close"}, at : {0}, e : Errors]
        \cup [side : {"left", "right"}, op : {"next"}, at : FaultPositions, e : Errors]

FaultInputs ==
    [l : {Scan1}, r : {Scan2},
     ls : {IntSchema(<<"k", "a">>)}, rs : {IntSchema(<<"k", "b", "c">>)},
     p : {JoinPredicateNew("Equals", 0, 0)}, f : Faults]

\* streams of one or two full level-1 runs for the sort-merge join: the keys of
\* a run follow one of KeyBlocks, the second field numbers the tuples
KeyBlocks == {<<0, 1, 2, 3>>, <<3, 1, 0, 2>>, <<0, 0, 1, 2>>}

NumberedStream(keys) == [i \in DOMAIN keys |-> <<keys[i], i>>]

RunStreams ==
    {NumberedStream(b) : b \in KeyBlocks}
        \cup {NumberedStream(b1 \o b2) : b1 \in KeyBlocks, b2 \in KeyBlocks}

RunInputs ==
    [l : RunStreams, r : RunStreams,
     ls : {IntSchema(<<"k", "a">>)}, rs : {IntSchema(<<"k", "b">>)},
     p : {JoinPredicateNew("Equals", 0, 0)}, f : {NoFault}]

\* predicates whose left_index (2), right_index, or both, are no index of the
\* tuples of that child
BadIndexSmallInputs ==
    [l : SmallLeft, r : SmallRight,
     ls : {IntSchema(<<"k", "a">>)}, rs : {IntSchema(<<"k">>)},
     p : {JoinPredicateNew("Equals", 2, 0), JoinPredicateNew("Equals", 0, 1),
          JoinPredicateNew("Equals", 2, 1)},
     f : {NoFault}]

BadIndexRunInputs ==
    [l : RunStreams, r : RunStreams,
     ls : {IntSchema(<<"k", "a">>)}, rs : {IntSchema(<<"k", "b">>)},
     p : {JoinPredicateNew("Equals", 2, 0), JoinPredicateNew("Equals", 0, 2),
          JoinPredicateNew("Equals", 2, 2)},
     f : {NoFault}]

\* a join on field 1 of the left and field 0 of the right tuples: left streams
\* of two full runs whose first field numbers the tuples
SwappedStream(keys) == [i \in DOMAIN keys |-> <<i, keys[i]>>]

CrossIndexInputs ==
    [l : {SwappedStream(b1 \o b2) : b1 \in KeyBlocks, b2 \in KeyBlocks}, r : RunStreams,
     ls : {IntSchema(<<"a", "k">>)}, rs : {IntSchema(<<"k", "b">>)},
     p : {JoinPredicateNew("Equals", 1, 0)}, f : {NoFault}]

\* right streams of two full runs with keys on both sides of the 999999 of
\* min_r in SortMergeJoin::new, and with negative keys
WideKeyBlocks ==
    {<<1000003, 1000001, 1000004, 1000002>>, <<999999, 1000000, 999998, 1000005>>,
     <<-4, -1, -6, -2>>, <<3, -5, 0, 7>>}

WideKeyInputs ==
    [l : {NumberedStream(<<1000001, -1, 3, 999999, 0, 1000005, -6, 7>>)},
     r : {NumberedStream(b1 \o b2) : b1 \in WideKeyBlocks, b2 \in WideKeyBlocks},
     ls : {IntSchema(<<"k", "a">>)}, rs : {IntSchema(<<"k", "b">>)},
     p : {JoinPredicateNew("Equals", 0, 0)}, f : {NoFault}]

Inputs(k) ==
    SmallInputs \cup ScenarioInputs \cup FaultInputs \cup BadIndexSmallInputs
        \cup (IF k = "SM"
              THEN RunInputs \cup BadIndexRunInputs \cup CrossIndexInputs \cup WideKeyInputs
              ELSE {})

\* no helper function is applied on its own
UNone == [fn |-> "none"]

\* no driving call is in progress and no thread was spawned
WNone ==
    [pc |-> "idle", runs |-> <<>>, handles |-> <<>>, res |-> <<>>, threads |-> <<>>,
     ended |-> <<>>,
     l1_runs_l |-> <<>>, l1_runs_r |-> <<>>, l2_runs_l |-> <<>>, l2_runs_r |-> <<>>,
     seq |-> <<>>]

InitKind(k) ==
    /\ kind = k
    /\ \E inp \in Inputs(k) :
        /\ left_tuples = inp.l
        /\ right_tuples = inp.r
        /\ left_schema = inp.ls
        /\ right_schema = inp.rs
        /\ fault = inp.f
        /\ nl = JoinNew(inp.p)
        /\ hj = HashEqJoinNew(inp.p)
        /\ \E method \in (IF k = "SM" THEN {1, 2} ELSE {1}) :
              sm = SortMergeJoinNew(inp.p, method)
    /\ h = HNew
    /\ u = UNone
    /\ w = WNone

Init == \E k \in {"NL", "HJ", "SM"} : InitKind(k)

Next == NextNL \/ NextHJ \/ NextSM

Spec == Init /\ [][Next]_vars

SpecNL == InitKind("NL") /\ [][NextNL]_vars

SpecHJ == InitKind("HJ") /\ [][NextHJ]_vars

SpecSM == InitKind("SM") /\ [][NextSM]_vars

----------------------------------------------------------------------------
(* The helper functions of the sort-merge join applied on their own.  u     *)
(* holds the arguments, and after the call res: the value returned, or      *)
(* panic.                                                                   *)

UCall(fn, runs, min, max, index) ==
    [fn |-> fn, runs |-> runs, min |-> min, max |-> max, index |-> index,
     done |-> FALSE, res |-> [panic |-> FALSE, val |-> <<>>]]

\* runs of 4 tuples (key, position) for sort_run_l1
L1Keys == {0, 1, 2}

L1Args == {UCall("sort_run_l1", <<NumberedStream(ks)>>, <<>>, <<>>, 0) :
              ks \in [1..4 -> L1Keys]}

\* runs of 8 tuples for sort_run_l2: every arrangement of two key values, and
\* over four key values the runs merge_1_to_2 builds from two sorted runs: a
\* first half in non-decreasing, a second half in non-increasing key order
L2Keys == {0, 1, 2, 3}

Ascending4 == {ks \in [1..4 -> L2Keys] : \A i \in 1..3 : ks[i] <= ks[i + 1]}

L2Args ==
    {UCall("sort_run_l2", <<NumberedStream(ks)>>, <<>>, <<>>, 0) :
        ks \in [1..8 -> {0, 1}]}
    \cup {UCall("sort_run_l2", <<NumberedStream(a \o Reverse(d))>>, <<>>, <<>>, 0) :
            a \in Ascending4, d \in Ascending4}

\* level-2 runs, min and max tuples for sort_m_way_l3; the empty tuple is the
\* max_r of SortMergeJoin::new
L3Keys == {-3, 0, 1, 2, 5}

L3Runs ==
    {<<NumberedStream(ks)>> : ks \in SeqsUpTo(L3Keys, 3)}
        \cup {<<NumberedStream(k1), NumberedStream(k2)>> :
                k1 \in SeqsUpTo(L3Keys, 1), k2 \in SeqsUpTo(L3Keys, 1)}

L3Args ==
    {UCall("sort_m_way_l3", runs, <<mn, 0>>, mx, 0) :
        runs \in L3Runs, mn \in L3Keys, mx \in {<<k, 0>> : k \in L3Keys} \cup {<<>>}}

\* lists of level-1 runs for merge_1_to_2: none, and the runs the split loops
\* of open build from streams of 0..17 tuples (1 to 5 runs, the last one of 0
\* to 4 tuples)
M12Args ==
    {UCall("merge_1_to_2", runs, <<>>, <<>>, 0) :
        runs \in {<<>>} \cup {split_runs(NumberedStream([i \in 1..m |-> i % 3])) : m \in 0..17}}

\* two level-1 runs in non-decreasing key order for the level-2 stage of open:
\* tuples that differ in their second field, and tuples that are equal when
\* their keys are
Level2Args ==
    {UCall("level_2", <<[i \in 1..4 |-> <<a[i], i * n>>], [i \in 1..4 |-> <<d[i], (i + 4) * n>>]>>,
           <<>>, <<>>, 0) : a \in Ascending4, d \in Ascending4, n \in {0, 1}}

\* the arguments of join_m_way and join_m_pass
UJoin(fn, run, right_runs, pre) ==
    [fn |-> fn, run |-> run, right_runs |-> right_runs, pre |-> pre,
     done |-> FALSE, res |-> [panic |-> FALSE, val |-> <<>>]]

\* runs of up to n tuples (key, position) over three key values, in any order
JoinRuns(n) == {NumberedStream(ks) : ks \in SeqsUpTo({0, 1, 2}, n)}

MWayArgs ==
    {UJoin("join_m_way", l, <<r>>, JoinPredicateNew("Equals", 0, 0)) :
        l \in JoinRuns(3), r \in JoinRuns(3)}

MPassArgs ==
    {UJoin("join_m_pass", l, rs, JoinPredicateNew("Equals", 0, 0)) :
        l \in JoinRuns(2), rs \in SeqsUpTo(JoinRuns(2), 2)}

\* key ranges for the cut points of sort_m_way_l3, min_val <= max_val, from
\* the ends and the middle of i32 and around zero; overflow_checks is the
\* setting of the build
CutKeys ==
    {i32_MIN, i32_MIN + 1, i32_MIN \div 2, -3, -1, 0, 1, 2, 5,
     i32_MAX \div 2, (i32_MAX \div 2) + 1, i32_MAX - 1, i32_MAX}

UCut(min_val, max_val, overflow_checks) ==
    [fn |-> "cut_points", min_val |-> min_val, max_val |-> max_val,
     overflow_checks |-> overflow_checks,
     done |-> FALSE, res |-> [panic |-> FALSE, val |-> <<>>]]

CutArgs ==
    {UCut(r[1], r[2], oc) : r \in {q \in CutKeys \X CutKeys : q[1] <= q[2]},
                            oc \in BOOLEAN}

InitHelpers ==
    /\ kind = "helper"
    /\ left_tuples = <<>>
    /\ right_tuples = <<>>
    /\ left_schema = IntSchema(<<"k", "a">>)
    /\ right_schema = IntSchema(<<"k", "b">>)
    /\ fault = NoFault
    /\ nl = JoinNew(JoinPredicateNew("Equals", 0, 0))
    /\ hj = HashEqJoinNew(JoinPredicateNew("Equals", 0, 0))
    /\ sm = SortMergeJoinNew(JoinPredicateNew("Equals", 0, 0), 1)
    /\ h = HNew
    /\ w = WNone
    /\ u \in L1Args \cup L2Args \cup L3Args \cup M12Args \cup Level2Args
                \cup MWayArgs \cup MPassArgs \cup CutArgs

Returned(val) == [u EXCEPT !.done = TRUE, !.res = [panic |-> FALSE, val |-> val]]

Panicked == [u EXCEPT !.done = TRUE, !.res = [panic |-> TRUE, val |-> <<>>]]

CallSortRunL1 ==
    /\ kind = "helper" /\ u.fn = "sort_run_l1" /\ ~u.done
    /\ u' = IF sort_run_l1_panics(u.runs[1]) THEN Panicked
            ELSE Returned(sort_run_l1(u.runs[1], u.index))
    /\ UNCHANGED <<kind, left_tuples, right_tuples, left_schema, right_schema, fault,
                   w, nl, hj, sm, h>>

CallSortRunL2 ==
    /\ kind = "helper" /\ u.fn = "sort_run_l2" /\ ~u.done
    /\ u' = IF sort_run_l2_panics(u.runs[1]) THEN Panicked
            ELSE Returned(sort_run_l2(u.runs[1], u.index))
    /\ UNCHANGED <<kind, left_tuples, right_tuples, left_schema, right_schema, fault,
                   w, nl, hj, sm, h>>

CallSortMWayL3 ==
    /\ kind = "helper" /\ u.fn = "sort_m_way_l3" /\ ~u.done
    /\ u' = IF sort_m_way_l3_panics(u.runs, u.min, u.max, u.index) THEN Panicked
            ELSE Returned(sort_m_way_l3(u.runs, u.min, u.max, u.index))
    /\ UNCHANGED <<kind, left_tuples, right_tuples, left_schema, right_schema, fault,
                   w, nl, hj, sm, h>>

CallMerge1To2 ==
    /\ kind = "helper" /\ u.fn = "merge_1_to_2" /\ ~u.done
    /\ u' = Returned(merge_1_to_2(u.runs))
    /\ UNCHANGED <<kind, left_tuples, right_tuples, left_schema, right_schema, fault,
                   w, nl, hj, sm, h>>

\* the level-2 stage of open: merge_1_to_2, then sort_runs with level 2
CallLevel2 ==
    /\ kind = "helper" /\ u.fn = "level_2" /\ ~u.done
    /\ u' = IF sort_runs_panics(merge_1_to_2(u.runs), 2) THEN Panicked
            ELSE Returned(sort_runs(merge_1_to_2(u.runs), u.index, 2))
    /\ UNCHANGED <<kind, left_tuples, right_tuples, left_schema, right_schema, fault,
                   w, nl, hj, sm, h>>

CallJoinMWay ==
    /\ kind = "helper" /\ u.fn = "join_m_way" /\ ~u.done
    /\ LET r == join_m_way(u.run, u.right_runs[1], u.pre) IN
          u' = IF r.panic THEN Panicked ELSE Returned(r.res)
    /\ UNCHANGED <<kind, left_tuples, right_tuples, left_schema, right_schema, fault,
                   w, nl, hj, sm, h>>

CallJoinMPass ==
    /\ kind = "helper" /\ u.fn = "join_m_pass" /\ ~u.done
    /\ LET r == join_m_pass(u.run, u.right_runs, u.pre) IN
          u' = IF r.panic THEN Panicked ELSE Returned(r.res)
    /\ UNCHANGED <<kind, left_tuples, right_tuples, left_schema, right_schema, fault,
                   w, nl, hj, sm, h>>

\* the two cut-point expressions at the head of sort_m_way_l3
CallCutPoints ==
    /\ kind = "helper" /\ u.fn = "cut_points" /\ ~u.done
    /\ LET c == cut_points(u.min_val, u.max_val) IN
          u' = IF c.ovf /\ u.overflow_checks THEN Panicked ELSE Returned(c)
    /\ UNCHANGED <<kind, left_tuples, right_tuples, left_schema, right_schema, fault,
                   w, nl, hj, sm, h>>

NextHelpers ==
    \/ CallSortRunL1
    \/ CallSortRunL2
    \/ CallSortMWayL3
    \/ CallMerge1To2
    \/ CallLevel2
    \/ CallJoinMWay
    \/ CallJoinMPass
    \/ CallCutPoints

SpecHelpers == InitHelpers /\ [][NextHelpers]_vars

----------------------------------------------------------------------------
(* The sort-merge join with its worker threads.  w.pc is the stage the       *)
(* driving thread is in: the sort_runs calls of open ("l1_l", "l1_r", "l2_l", *)
(* "l2_r") and the workers of next ("join"), or "idle" outside a call.       *)
(* w.runs is the Vec the spawn loop goes over, w.handles the JoinHandles in  *)
(* spawn order (numbers of w.threads), w.res the values joined so far.       *)
(* w.threads holds every thread spawned: its closure's captures, whether it  *)
(* still runs, and the value it returned; w.ended lists the threads of the   *)
(* stage in the order in which they ended.  w.seq is what the call returns   *)
(* when it is taken as one step.                                             *)

Stages == <<"l1_l", "l1_r", "l2_l", "l2_r", "join">>

StageNo(s) == CHOOSE i \in DOMAIN Stages : Stages[i] = s

\* the driving thread enters a spawn loop over runs
SpawnLoop(wr, stage, runs) ==
    [wr EXCEPT !.pc = stage, !.runs = runs, !.handles = <<>>, !.res = <<>>,
               !.ended = <<>>]

\* the index a sort_runs call of open passes on
StageIndex(stage) ==
    IF stage \in {"l1_l", "l2_l"} THEN sm.predicate.left_index ELSE sm.predicate.right_index

\* open up to its first sort_runs call: both children are opened and drained
OpenEnter ==
    /\ kind = "SMT"
    /\ w.pc = "idle"
    /\ h.call = "new"
    /\ sm' = [sm EXCEPT !.open = TRUE,
                        !.left_child = IterDrained(sm.left_child, left_tuples),
                        !.right_child = IterDrained(sm.right_child, right_tuples)]
    /\ w' = SpawnLoop([w EXCEPT !.seq = SortMergeJoinOpenResult], "l1_l",
                      split_runs(left_tuples))
    /\ UNCHANGED <<kind, left_tuples, right_tuples, left_schema, right_schema, fault,
                   u, nl, hj, h>>

\* next up to its spawn loop
NextEnter ==
    /\ kind = "SMT"
    /\ w.pc = "idle"
    /\ h.call = "open" /\ h.ret = "ok"
    /\ sm.open
    /\ w' = SpawnLoop([w EXCEPT !.seq = SortMergeJoinNextResult], "join", sm.l3_runs_l)
    /\ UNCHANGED <<kind, left_tuples, right_tuples, left_schema, right_schema, fault,
                   u, nl, hj, sm, h>>

\* one turn of a spawn loop: thread::spawn(move || ..) and handles.push; the
\* closure owns its run, a copy of index and, in m-way, of run_counter
Spawn ==
    /\ kind = "SMT"
    /\ w.pc # "idle"
    /\ Len(w.handles) < Len(w.runs)
    /\ LET k == Len(w.handles) + 1
           thread == [stage |-> w.pc, run |-> w.runs[k], index |-> StageIndex(w.pc),
                      run_counter |-> k - 1, status |-> "running", val |-> <<>>]
       IN  w' = [w EXCEPT !.threads = Append(w.threads, thread),
                          !.handles = Append(w.handles, Len(w.threads) + 1)]
    /\ UNCHANGED <<kind, left_tuples, right_tuples, left_schema, right_schema, fault,
                   u, nl, hj, sm, h>>

\* a closure that reads run_counter of the driving thread when it runs
task_run_counter_shared(thread, wr) == Len(wr.handles)

\* the run_counter a merge-join worker indexes right_runs with: the copy moved
\* into its closure
task_run_counter(thread, wr) == thread.run_counter

\* what the closure of a thread computes
ThreadBody(thread, wr) ==
    CASE thread.stage \in {"l1_l", "l1_r"} ->
            IF sort_run_l1_panics(thread.run) THEN [panic |-> TRUE, res |-> <<>>]
            ELSE [panic |-> FALSE, res |-> sort_run_l1(thread.run, thread.index)]
      [] thread.stage \in {"l2_l", "l2_r"} ->
            IF sort_run_l2_panics(thread.run) THEN [panic |-> TRUE, res |-> <<>>]
            ELSE [panic |-> FALSE, res |-> sort_run_l2(thread.run, thread.index)]
      [] OTHER ->
            IF sm.sort_merge_method = 1
            THEN IF task_run_counter(thread, wr) + 1 > Len(sm.l3_runs_r)
                 THEN [panic |-> TRUE, res |-> <<>>]
                 ELSE join_m_way(thread.run,
                                 sm.l3_runs_r[task_run_counter(thread, wr) + 1],
                                 sm.predicate)
            ELSE join_m_pass(thread.run, sm.l3_runs_r, sm.predicate)

\* a worker runs to its end, at any time after it was spawned
WorkerRun ==
    /\ kind = "SMT"
    /\ Running
    /\ \E t \in DOMAIN w.threads :
          /\ w.threads[t].status = "running"
          /\ LET r == ThreadBody(w.threads[t], w) IN
                w' = [w EXCEPT !.threads[t].status =
                                    IF r.panic THEN "panicked" ELSE "finished",
                               !.threads[t].val = r.res,
                               !.ended = Append(w.ended, t)]
    /\ UNCHANGED <<kind, left_tuples, right_tuples, left_schema, right_schema, fault,
                   u, nl, hj, sm, h>>

\* a join that returns what the thread has so far
handle_join_returns_at_once(thread) == TRUE

\* handle.join() returns once the thread has ended
handle_join_returns(thread) == thread.status # "running"

\* an unwrap that takes an empty run for the value of a worker that panicked
unwrap_panics_never(thread) == FALSE

\* handle.join() is Err for a thread that panicked, and unwrap() of it panics
unwrap_panics(thread) == thread.status = "panicked"

\* one turn of a join loop: handle.join().unwrap() and res.push; the unwrap of
\* a worker's panic aborts the driving call
HandleJoin ==
    /\ kind = "SMT"
    /\ w.pc # "idle"
    /\ Len(w.handles) = Len(w.runs)
    /\ Len(w.res) < Len(w.handles)
    /\ LET thread == w.threads[w.handles[Len(w.res) + 1]] IN
          /\ handle_join_returns(thread)
          /\ IF unwrap_panics(thread)
             THEN /\ w' = [w EXCEPT !.pc = "idle"]
                  /\ h' = IF w.pc = "join" THEN HAfterNext("panic", "worker", <<>>)
                          ELSE HAfterOpen("panic", "index", FALSE)
             ELSE /\ w' = [w EXCEPT !.res = Append(w.res, thread.val)]
                  /\ h' = h
    /\ UNCHANGED <<kind, left_tuples, right_tuples, left_schema, right_schema, fault,
                   u, nl, hj, sm>>

\* level 3 of open, in the driving thread
level_3(j, l2_runs_l, l2_runs_r) ==
    LET left_index == j.predicate.left_index
        right_index == j.predicate.right_index
    IN  IF j.sort_merge_method = 1
        THEN LET mm == min_max_scan(Flatten(l2_runs_r), 1, j.min_r, j.max_r, right_index)
                 scanned == [j EXCEPT !.min_r = mm.min, !.max_r = mm.max]
             IN  IF sort_m_way_l3_panics(l2_runs_l, mm.min, mm.max, left_index)
                 THEN [ret |-> "panic", why |-> "unwrap_none", j |-> scanned]
                 ELSE
                 LET left_done ==
                         [scanned EXCEPT !.l3_runs_l =
                             sort_m_way_l3(l2_runs_l, mm.min, mm.max, left_index)]
                 IN  IF sort_m_way_l3_panics(l2_runs_r, mm.min, mm.max, right_index)
                     THEN [ret |-> "panic", why |-> "unwrap_none", j |-> left_done]
                     ELSE [ret |-> "ok", why |-> "",
                           j |-> [left_done EXCEPT !.l3_runs_r =
                               sort_m_way_l3(l2_runs_r, mm.min, mm.max, right_index)]]
        ELSE [ret |-> "ok", why |-> "",
              j |-> [j EXCEPT !.l3_runs_l = l2_runs_l, !.l3_runs_r = l2_runs_r]]

\* the join loop is through: sort_runs returns res and open goes on to its next
\* sort_runs call, or through level 3 to its end; next stores the joined runs
StageReturn ==
    /\ kind = "SMT"
    /\ w.pc # "idle"
    /\ Len(w.res) = Len(w.runs)
    /\ CASE w.pc = "l1_l" ->
              /\ w' = SpawnLoop([w EXCEPT !.l1_runs_l = w.res], "l1_r",
                                split_runs(right_tuples))
              /\ UNCHANGED <<sm, h>>
         [] w.pc = "l1_r" ->
              /\ w' = SpawnLoop([w EXCEPT !.l1_runs_r = w.res,
                                          !.l2_runs_l = merge_1_to_2(w.l1_runs_l),
                                          !.l2_runs_r = merge_1_to_2(w.res)],
                                "l2_l", merge_1_to_2(w.l1_runs_l))
              /\ UNCHANGED <<sm, h>>
         [] w.pc = "l2_l" ->
              /\ w' = SpawnLoop([w EXCEPT !.l2_runs_l = w.res], "l2_r", w.l2_runs_r)
              /\ UNCHANGED <<sm, h>>
         [] w.pc = "l2_r" ->
              LET r == level_3(sm, w.l2_runs_l, w.res) IN
              /\ w' = [w EXCEPT !.l2_runs_r = w.res, !.pc = "idle"]
              /\ sm' = r.j
              /\ h' = HAfterOpen(r.ret, r.why, FALSE)
         [] OTHER ->
              /\ w' = [w EXCEPT !.pc = "idle"]
              /\ sm' = [sm EXCEPT !.l3_runs_l = w.res]
              /\ h' = HAfterNext("none", "", <<>>)
    /\ UNCHANGED <<kind, left_tuples, right_tuples, left_schema, right_schema, fault,
                   u, nl, hj>>

\* left streams of four full runs, and of a full and a short run; right streams
\* of three and of two full runs; a predicate on field 0 of both sides, and one
\* whose left_index is no index of the left tuples
LongInputs ==
    [l : {NumberedStream(<<3, 1, 0, 2, 0, 1, 2, 3, 2, 0, 3, 1, 1, 3, 2, 0>>),
          NumberedStream(<<0, 1, 2, 3, 1, 0>>)},
     r : {NumberedStream(<<0, 1, 2, 3, 3, 1, 0, 2, 2, 3, 0, 1>>),
          NumberedStream(<<2, 0, 3, 1, 0, 1, 2, 3>>)},
     ls : {IntSchema(<<"k", "a">>)}, rs : {IntSchema(<<"k", "b">>)},
     p : {JoinPredicateNew("Equals", 0, 0), JoinPredicateNew("Equals", 2, 0)},
     f : {NoFault}]

ThreadInputs == ScenarioInputs \cup RunInputs \cup BadIndexRunInputs \cup LongInputs

InitThreads ==
    /\ kind = "SMT"
    /\ \E inp \in ThreadInputs :
        /\ left_tuples = inp.l
        /\ right_tuples = inp.r
        /\ left_schema = inp.ls
        /\ right_schema = inp.rs
        /\ fault = inp.f
        /\ nl = JoinNew(inp.p)
        /\ hj = HashEqJoinNew(inp.p)
        /\ \E method \in {1, 2} : sm = SortMergeJoinNew(inp.p, method)
    /\ h = HNew
    /\ u = UNone
    /\ w = WNone

NextThreads == OpenEnter \/ NextEnter \/ Spawn \/ WorkerRun \/ HandleJoin \/ StageReturn

SpecThreads == InitThreads /\ [][NextThreads]_vars

----------------------------------------------------------------------------
(* Notions the properties are stated with *)

Count(s, x) == Cardinality({i \in DOMAIN s : s[i] = x})

SameBag(a, b) == Len(a) = Len(b) /\ \A i \in DOMAIN a : Count(a, a[i]) = Count(b, a[i])

\* the pairs of the cross product that satisfy the predicate
MatchingPairs(p) ==
    {q \in (DOMAIN left_tuples) \X (DOMAIN right_tuples) :
        cmp(p, left_tuples[q[1]], right_tuples[q[2]])}

PairTuple(q) == left_tuples[q[1]] \o right_tuples[q[2]]

\* out holds the concatenation of every matching pair, once per pair, and nothing else
IsExactJoin(out, p) ==
    /\ Len(out) = Cardinality(MatchingPairs(p))
    /\ \A q \in MatchingPairs(p) :
          Count(out, PairTuple(q)) =
              Cardinality({q2 \in MatchingPairs(p) : PairTuple(q2) = PairTuple(q)})

\* the operator was opened and not closed since, by the calls made
OpenByCalls == h.drain # "idle"

\* a call since the last open or close that returned Ok has returned a child's error
AfterChildError == h.drain = "failed"

\* a drain that started with open on an operator that was not open reached
\* end-of-stream with the last call
DrainedAfterOpen == h.start = "open" /\ h.drain = "eos"

\* open, next until end-of-stream on a fresh nested-loop join over the same children
RECURSIVE join_drain(_, _, _)
join_drain(cur, lc, rc) ==
    LET r == join_next(cur, lc, rc) IN
    IF r.ret = "some" THEN <<r.t>> \o join_drain(r.cur, r.lc, r.rc) ELSE <<>>

NestedLoopDrain ==
    LET o == JoinOpenResult IN
    IF o.ret = "ok"
    THEN [ok |-> TRUE, out |-> join_drain(o.j.left_tuple_cur, o.j.left_child, o.j.right_child)]
    ELSE [ok |-> FALSE, out |-> <<>>]

JoinGetSchema == nl.schema

\* the operator the caller drives, and its children
Operator == CASE kind = "NL" -> nl [] kind = "HJ" -> hj [] OTHER -> sm

Child(side) == IF side = "left" THEN Operator.left_child ELSE Operator.right_child

\* the predicate's index is no index of a tuple of the child
LeftIndexOutOfRange ==
    \E i \in DOMAIN left_tuples : get_field(left_tuples[i], Operator.predicate.left_index) = None

RightIndexOutOfRange ==
    \E i \in DOMAIN right_tuples :
        get_field(right_tuples[i], Operator.predicate.right_index) = None

\* the child is behind the position at which its next returns Err
PastFault(c) == c.opened /\ c.index > fault.at

HashEqJoinGetSchema == hj.schema

SortMergeJoinGetSchema == sm.schema

----------------------------------------------------------------------------
(* The scenario of the tests: the ten result tuples *)

ScenarioResult ==
    << <<1, 4, 1, 2, 3>>, <<1, 4, 1, 10, 3>>, <<1, 1, 1, 2, 3>>, <<1, 1, 1, 10, 3>>,
       <<3, 3, 3, 4, 5>>, <<3, 3, 3, 6, 5>>, <<3, 7, 3, 4, 5>>, <<3, 7, 3, 6, 5>>,
       <<5, 6, 5, 9, 7>>, <<5, 2, 5, 9, 7>> >>

----------------------------------------------------------------------------
(* Properties *)

\* C1: nested-loop join, every finite left and right stream (empty ones
\* included), every operator: open succeeds, and open followed by next until
\* end-of-stream returns exactly the concatenations of the matching pairs of
\* the cross product, once per pair.
C1_NestedLoopExact ==
    kind = "NL" =>
        /\ (h.call = "open" => h.ret = "ok")
        /\ (DrainedAfterOpen => IsExactJoin(h.out, nl.predicate))

\* C2: for Equals, open and next until end-of-stream on the hash equi-join
\* completes and returns the same multiset of tuples as the nested-loop join
\* over the same children.
C2_HashEqualsNestedLoop ==
    (kind = "HJ" /\ hj.predicate.op = "Equals" /\ NestedLoopDrain.ok) =>
        /\ (h.call \in {"open", "next"} /\ OpenByCalls => h.ret # "panic")
        /\ (DrainedAfterOpen => SameBag(h.out, NestedLoopDrain.out))

\* C3: for Equals and any finite streams, open and one next on the sort-merge
\* join complete, and the tuples then held in l3_runs_l are, as a multiset,
\* the result of the nested-loop join over the same children.
C3_SortMergeEqualsNestedLoop ==
    (kind = "SM" /\ sm.predicate.op = "Equals" /\ NestedLoopDrain.ok) =>
        /\ (h.call = "open" => h.ret = "ok")
        /\ (h.call = "next" /\ OpenByCalls => h.ret # "panic")
        /\ (DrainedAfterOpen => SameBag(Flatten(sm.l3_runs_l), NestedLoopDrain.out))

\* C4: on the scenario of the tests (Equals on field 0 of both sides) every
\* operator completes open and next, the nested-loop and the hash join return
\* exactly the ten tuples of ScenarioResult up to order, and the sort-merge
\* join, m-way as m-pass, holds exactly these after open and one next.
C4_Scenario ==
    IsScenario =>
        /\ (h.ret = "panic" => h.why = "not_open")
        /\ (kind \in {"NL", "HJ"} /\ DrainedAfterOpen => SameBag(h.out, ScenarioResult))
        /\ (kind = "SM" /\ DrainedAfterOpen => SameBag(Flatten(sm.l3_runs_l), ScenarioResult))

C4_Witness ==
    /\ IsScenario
    /\ kind = "SM"
    /\ sm.sort_merge_method = 1
    /\ DrainedAfterOpen
    /\ Len(Flatten(sm.l3_runs_l)) = 10

\* C5: sort-merge next returns end-of-stream only once every result tuple it
\* computed has been returned by a next call.
C5_NextYieldsResults ==
    (kind = "SM" /\ h.call = "next" /\ h.ret = "none" /\ DrainedAfterOpen) =>
        SameBag(h.out, Flatten(sm.l3_runs_l))

\* C6: hash equi-join, Equals: a next call on an open operator returns
\* end-of-stream or the concatenation of a left tuple of the table with a right
\* tuple of equal join key; it never aborts.
C6_HashNextSafe ==
    (kind = "HJ" /\ hj.predicate.op = "Equals" /\ h.call = "next" /\ OpenByCalls) =>
        \/ h.ret = "none"
        \/ /\ h.ret = "some"
           /\ \E k \in DOMAIN hj.ht : \E i \in DOMAIN hj.ht[k] : \E j \in DOMAIN right_tuples :
                 /\ get_field(right_tuples[j], hj.predicate.right_index) = Some(k)
                 /\ get_field(hj.ht[k][i], hj.predicate.left_index) = Some(k)
                 /\ h.t = hj.ht[k][i] \o right_tuples[j]

\* C7: nested-loop join and hash equi-join (Equals): open, drain to
\* end-of-stream, rewind, drain to end-of-stream: the second drain returns the
\* same multiset as the first.
C7_RewindSameDrain ==
    (/\ kind \in {"NL", "HJ"}
     /\ kind = "HJ" => hj.predicate.op = "Equals"
     /\ h.start = "rewind" /\ h.prev_ok /\ h.drain = "eos") =>
        SameBag(h.out, h.prev_out)

\* C8: for the three operators, a next, rewind or close call aborts with
\* "Operator has not been opened" exactly when the operator is not open by the
\* calls made so far (never opened, or closed since its last open).  Calls
\* that follow a call that returned a child's error are not covered.
C8_NotOpenAborts ==
    [][(h'.call \in {"next", "rewind", "close"} /\ ~AfterChildError) =>
          ((h'.ret = "panic" /\ h'.why = "not_open") <=> ~OpenByCalls)]_vars

C8_Witness ==
    /\ kind = "SM"
    /\ h.call = "next"
    /\ h.ret = "panic"
    /\ h.why = "not_open"
    /\ sm.left_child.index = 0
    /\ sm.l3_runs_l # <<>>

\* C9: in every state of the lifecycle get_schema of each operator is the left
\* child's schema followed by the right child's schema.
C9_SchemaIsConcat ==
    \A s \in {JoinGetSchema, HashEqJoinGetSchema, SortMergeJoinGetSchema} :
        /\ s.attributes = left_schema.attributes \o right_schema.attributes
        /\ s = TableSchemaNew(s.attributes)

C9_Witness ==
    /\ kind = "HJ"
    /\ h.call = "close"
    /\ h.ret = "ok"
    /\ Len(HashEqJoinGetSchema.attributes) = 3
    /\ HashEqJoinGetSchema.name_map["k"] = 2

\* C10: no hash equi-join with an operator other than Equals can be constructed
\* and driven.
C10_HashRejectsNonEquals ==
    (kind = "HJ" /\ h.call # "new") => hj.predicate.op = "Equals"

\* C11: sort-merge join: after open, one next, rewind and one next, the tuples
\* then held in l3_runs_l are, as a multiset, those the next before the rewind
\* left there: the first next after rewind runs the whole pipeline again.
C11_RewindRerunsPipeline ==
    (kind = "SM" /\ h.start = "rewind" /\ h.prev_ok /\ h.call = "next" /\ h.drain = "eos") =>
        SameBag(Flatten(sm.l3_runs_l), h.prev_out)

\* the join keys of a run, in order
KeysOf(run, index) == [i \in DOMAIN run |-> get_field(run[i], index)[1]]

NonDecreasing(ks) == \A i \in 1..(Len(ks) - 1) : ks[i] <= ks[i + 1]

NonIncreasing(ks) == \A i \in 1..(Len(ks) - 1) : ks[i] >= ks[i + 1]

\* C12: sort_run_l1 applied to any 4 tuples returns 4 tuples that carry the
\* join keys of the input in non-decreasing order.
C12_Level1Sorted ==
    (u.fn = "sort_run_l1" /\ u.done) =>
        /\ ~u.res.panic
        /\ Len(u.res.val) = 4
        /\ NonDecreasing(KeysOf(u.res.val, u.index))
        /\ SameBag(KeysOf(u.res.val, u.index), KeysOf(u.runs[1], u.index))

C12_Witness ==
    /\ u.fn = "sort_run_l1"
    /\ u.done
    /\ KeysOf(u.runs[1], u.index) = <<2, 1, 1, 0>>
    /\ KeysOf(u.res.val, u.index) = <<0, 1, 1, 2>>

\* C13 as claimed: sort_run_l2 applied to any 8 tuples, in any arrangement of
\* their keys, returns them with the join keys in non-decreasing order.
C13_Level2SortsAny ==
    (u.fn = "sort_run_l2" /\ u.done) =>
        /\ ~u.res.panic
        /\ NonDecreasing(KeysOf(u.res.val, u.index))

\* C13 amended: sort_run_l2 applied to 8 tuples whose first four are in
\* non-decreasing and whose last four are in non-increasing key order returns
\* the 8 tuples with the join keys in non-decreasing order.
C13_Level2SortsBitonic ==
    (/\ u.fn = "sort_run_l2" /\ u.done
     /\ NonDecreasing(SubSeq(KeysOf(u.runs[1], u.index), 1, 4))
     /\ NonIncreasing(SubSeq(KeysOf(u.runs[1], u.index), 5, 8))) =>
        /\ ~u.res.panic
        /\ NonDecreasing(KeysOf(u.res.val, u.index))
        /\ SameBag(u.res.val, u.runs[1])

C13_Witness ==
    /\ u.fn = "sort_run_l2"
    /\ u.done
    /\ KeysOf(u.runs[1], u.index) = <<0, 1, 1, 3, 3, 2, 1, 0>>
    /\ KeysOf(u.res.val, u.index) = <<0, 0, 1, 1, 1, 2, 3, 3>>

\* C14: in the 3 buckets sort_m_way_l3 returns, for min <= max, no key of
\* bucket i is above a key of bucket i + 1.
C14_BucketsOrdered ==
    (/\ u.fn = "sort_m_way_l3" /\ u.done /\ ~u.res.panic
     /\ get_field(u.min, u.index)[1] <= get_field(u.max, u.index)[1]) =>
        /\ Len(u.res.val) = 3
        /\ \A i \in 1..2 :
              \A a \in DOMAIN u.res.val[i] : \A b \in DOMAIN u.res.val[i + 1] :
                 get_field(u.res.val[i][a], u.index)[1]
                    <= get_field(u.res.val[i + 1][b], u.index)[1]

C14_Witness ==
    /\ u.fn = "sort_m_way_l3"
    /\ u.done
    /\ ~u.res.panic
    /\ u.min = <<0, 0>>
    /\ u.max = <<5, 0>>
    /\ KeysOf(u.res.val[1], u.index) = <<-3, 1>>
    /\ KeysOf(u.res.val[2], u.index) = <<2>>
    /\ u.res.val[3] = <<>>

\* C15: a driving call returns Err(e) when a child call it makes returns
\* Err(e).  The call during which a child passes the position at which its
\* next fails returns Err(e) and leaves the child right behind that position
\* (no second next); an open with a child whose open fails, a close of an open
\* operator with a child whose close fails, a rewind that rewinds a child whose
\* rewind fails, return Err(e) and leave that child as it was; a nested-loop
\* next that moves to a further left tuple with a right child whose rewind
\* fails returns Err(e) and leaves the right child at its end.
\* No call returns an Err other than the child's.
C15_ChildErrorsPropagate ==
    [][LET failed == h'.ret = "err" /\ h'.why = fault.e
           c == Child(fault.side)
           c1 == Child(fault.side)'
       IN  /\ h'.ret = "err" => (fault # NoFault /\ h'.why = fault.e)
           /\ fault.op = "next" /\ PastFault(c1) /\ ~PastFault(c) =>
                 failed /\ c1.index = fault.at + 1
           /\ fault.op = "open" /\ h'.call = "open" => failed /\ c1 = c
           /\ fault.op = "close" /\ h'.call = "close" /\ Operator.open => failed /\ c1 = c
           /\ (/\ fault.op = "rewind" /\ h'.call = "rewind" /\ h'.ret # "panic"
               /\ (kind = "HJ" => fault.side = "right")) => failed /\ c1 = c
           /\ (/\ fault.op = "rewind" /\ fault.side = "right" /\ kind = "NL"
               /\ h'.call = "next" /\ nl.left_child.index < Len(left_tuples)
               /\ nl'.left_child.index > nl.left_child.index) =>
                 failed /\ c1.index > Len(right_tuples)
      ]_vars

C15_Witness ==
    /\ kind = "NL"
    /\ fault.op = "rewind"
    /\ fault.side = "right"
    /\ h.call = "next"
    /\ h.ret = "err"
    /\ h.why = "ExecutionError"
    /\ Len(h.out) = 2

\* C16: with a predicate index that is no index of the tuples of its child,
\* the calls that read the join key of such a tuple abort: a nested-loop next
\* that compares a pair of tuples, a hash-join open, and a sort-merge open
\* with either strategy.
C16_BadIndexAborts ==
    (fault = NoFault /\ h.ret # "panic") =>
        /\ ~(/\ kind = "NL" /\ h.call = "next" /\ OpenByCalls
             /\ \/ LeftIndexOutOfRange /\ right_tuples # <<>>
                \/ RightIndexOutOfRange)
        /\ ~(/\ kind \in {"HJ", "SM"} /\ h.call = "open"
             /\ (LeftIndexOutOfRange \/ RightIndexOutOfRange))

\* C17: nested-loop join over a left child with zero tuples: open aborts at
\* the unwrap of the first left tuple, having returned no result; no open and
\* no rewind returns Ok.
C17_EmptyLeftAborts ==
    (kind = "NL" /\ left_tuples = <<>> /\ fault = NoFault /\ h.call \in {"open", "rewind"}) =>
        /\ h.ret = "panic"
        /\ h.call = "open" => (h.why = "unwrap_none" /\ nl.open /\ ~nl.right_child.opened)

C17_Witness ==
    /\ kind = "NL"
    /\ left_tuples = <<>>
    /\ Len(right_tuples) = 2
    /\ h.call = "open"
    /\ h.ret = "panic"
    /\ h.why = "unwrap_none"

\* C18: sort-merge join: after a close that returned Ok the operator holds no
\* data of the finished cycle: l3_runs_l and l3_runs_r are empty, min_r and
\* max_r are the sentinels of the constructor.
C18_CloseClearsState ==
    (kind = "SM" /\ h.call = "close" /\ h.ret = "ok") =>
        /\ sm.l3_runs_l = <<>>
        /\ sm.l3_runs_r = <<>>
        /\ sm.min_r = MinSentinel
        /\ sm.max_r = <<>>

\* every tuple of the runs is a left tuple of left_runs followed by a tuple of
\* right_runs that satisfies the predicate with it
JoinedFrom(runs, left_runs, right_runs) ==
    \A i \in DOMAIN runs : \A k \in DOMAIN runs[i] :
        \E a \in DOMAIN left_runs[i] : \E j \in DOMAIN right_runs :
            \E b \in DOMAIN right_runs[j] :
                /\ runs[i][k] = left_runs[i][a] \o right_runs[j][b]
                /\ cmp(sm.predicate, left_runs[i][a], right_runs[j][b])

\* C19: a next on an open sort-merge join that does not abort returns
\* end-of-stream and never a tuple; it leaves in l3_runs_l, run by run, tuples
\* joined from the left run it found there and the right runs.  With predicate
\* indices in range it does not abort.
C19_NextJoinsAndReturnsNone ==
    [][(kind = "SM" /\ h'.call = "next" /\ sm.open) =>
          /\ h'.ret \in {"none", "panic"}
          /\ h'.out = <<>>
          /\ h'.ret = "none" =>
                /\ Len(sm'.l3_runs_l) = Len(sm.l3_runs_l)
                /\ JoinedFrom(sm'.l3_runs_l, sm.l3_runs_l, sm.l3_runs_r)
                /\ sm'.l3_runs_r = sm.l3_runs_r
          /\ ~(LeftIndexOutOfRange \/ RightIndexOutOfRange) => h'.ret = "none"
      ]_vars

C19_Witness ==
    /\ IsScenario
    /\ kind = "SM"
    /\ sm.sort_merge_method = 2
    /\ h.call = "next"
    /\ h.ret = "none"
    /\ h.out = <<>>
    /\ h.drain = "past"
    /\ Len(Flatten(sm.l3_runs_l)) > 10

\* C20: sort-merge open completes for child streams of any finite length, the
\* empty stream and lengths that are no multiple of 4 included.
C20_OpenAnyLength ==
    (/\ kind = "SM" /\ h.call = "open" /\ fault = NoFault
     /\ ~(LeftIndexOutOfRange \/ RightIndexOutOfRange)) => h.ret = "ok"

\* C21: sort_run_l1 returns a permutation of its 4 input tuples: every tuple
\* occurs in the output as often as in the input, also when tuples have equal
\* join keys.
C21_Level1Permutation ==
    (u.fn = "sort_run_l1" /\ u.done) =>
        /\ ~u.res.panic
        /\ SameBag(u.res.val, u.runs[1])

\* C22: merge_1_to_2 applied to n level-1 runs r(0)..r(n-1): level-2 run k is
\* r(2k) followed by r(2k+1) reversed, and every tuple of the level-1 runs is in
\* exactly one level-2 run, also when n is odd.
C22_MergeKeepsEveryRun ==
    (u.fn = "merge_1_to_2" /\ u.done) =>
        /\ ~u.res.panic
        /\ \A k \in DOMAIN u.res.val :
              /\ 2 * k <= Len(u.runs)
              /\ u.res.val[k] = u.runs[2 * k - 1] \o Reverse(u.runs[2 * k])
        /\ SameBag(Flatten(u.res.val), Flatten(u.runs))

\* C23: two level-1 runs of 4 tuples, each in non-decreasing key order, put
\* through the level-2 stage (the first followed by the second reversed, then
\* sort_run_l2) give one run of 8 tuples that is a permutation of the 8 inputs
\* with keys in non-decreasing order, ties included.
C23_Level2StageSorts ==
    (u.fn = "level_2" /\ u.done) =>
        /\ ~u.res.panic
        /\ Len(u.res.val) = 1
        /\ Len(u.res.val[1]) = 8
        /\ SameBag(u.res.val[1], u.runs[1] \o u.runs[2])
        /\ NonDecreasing(KeysOf(u.res.val[1], u.index))

C23_Witness ==
    /\ u.fn = "level_2"
    /\ u.done
    /\ KeysOf(u.runs[1], u.index) = <<0, 1, 1, 3>>
    /\ KeysOf(u.runs[2], u.index) = <<1, 1, 2, 3>>
    /\ u.res.val[1][8] # u.res.val[1][7]
    /\ KeysOf(u.res.val[1], u.index) = <<0, 1, 1, 1, 1, 2, 3, 3>>

\* C24: sort_m_way_l3, when it returns, returns exactly 3 buckets; the tuples
\* of the buckets are, as a multiset, the tuples of the input runs, so every
\* tuple is in exactly one bucket; each bucket is in non-decreasing key order.
\* It returns whenever min, max and the tuples have a field at index.
C24_BucketsPartitionSorted ==
    (u.fn = "sort_m_way_l3" /\ u.done) =>
        /\ u.res.panic <=> u.max = <<>>
        /\ ~u.res.panic =>
              /\ Len(u.res.val) = 3
              /\ SameBag(Flatten(u.res.val), Flatten(u.runs))
              /\ \A i \in 1..3 : NonDecreasing(KeysOf(u.res.val[i], u.index))

C24_Witness ==
    /\ u.fn = "sort_m_way_l3"
    /\ u.done
    /\ u.runs = <<NumberedStream(<<2, 1, 5>>)>>
    /\ u.min = <<-3, 0>>
    /\ u.max = <<5, 0>>
    /\ u.res.val = << <<>>, << <<1, 2>>, <<2, 1>> >>, << <<5, 3>> >> >>

\* the numbers of the runs that hold tuple t
RunsWith(runs, t) == {i \in DOMAIN runs : \E k \in DOMAIN runs[i] : runs[i][k] = t}

\* C25: after a sort-merge open with m-way, every left tuple l and right tuple
\* r with equal join keys lie in buckets of the same number: l in exactly one
\* left bucket i, r in exactly one right bucket j, and i = j.
C25_BucketsAligned ==
    (/\ kind = "SM" /\ sm.sort_merge_method = 1 /\ sm.predicate.op = "Equals"
     /\ h.call = "open" /\ h.ret = "ok") =>
        \A a \in DOMAIN left_tuples : \A b \in DOMAIN right_tuples :
            get_field(left_tuples[a], sm.predicate.left_index)
                    = get_field(right_tuples[b], sm.predicate.right_index) =>
                \E i \in 1..3 :
                    /\ RunsWith(sm.l3_runs_l, left_tuples[a]) = {i}
                    /\ RunsWith(sm.l3_runs_r, right_tuples[b]) = {i}

\* C26: after a sort-merge open with m-way, min_r and max_r are tuples of the
\* right runs, and no tuple of the right runs has a join key below that of
\* min_r or above that of max_r, whatever the key values.
C26_ExtremaOfRight ==
    (kind = "SM" /\ sm.sort_merge_method = 1 /\ h.call = "open" /\ h.ret = "ok") =>
        LET right == Flatten(sm.l3_runs_r)
            key(t) == get_field(t, sm.predicate.right_index)[1]
        IN  /\ \E k \in DOMAIN right : right[k] = sm.min_r
            /\ \E k \in DOMAIN right : right[k] = sm.max_r
            /\ \A k \in DOMAIN right :
                  key(sm.min_r) <= key(right[k]) /\ key(right[k]) <= key(sm.max_r)

\* the concatenations of the pairs of a left and a right tuple that satisfy pre,
\* once per pair
PairsOf(run, right, pre) ==
    Flatten([a \in DOMAIN run |->
        Flatten([b \in DOMAIN right |->
            IF cmp(pre, run[a], right[b]) THEN <<merge(run[a], right[b])>> ELSE <<>>])])

\* C27: for Equals and a right run in non-decreasing key order, join_m_way
\* returns exactly the concatenations of the pairs of a left and a right tuple
\* with equal keys, once per pair: the break at the first right key above the
\* left key skips no matching right tuple.
C27_EarlyExitKeepsMatches ==
    (/\ u.fn = "join_m_way" /\ u.done /\ u.pre.op = "Equals"
     /\ NonDecreasing(KeysOf(u.right_runs[1], u.pre.right_index))) =>
        /\ ~u.res.panic
        /\ SameBag(u.res.val, PairsOf(u.run, u.right_runs[1], u.pre))

C27_Witness ==
    /\ u.fn = "join_m_way"
    /\ u.done
    /\ KeysOf(u.run, 0) = <<1, 0, 1>>
    /\ KeysOf(u.right_runs[1], 0) = <<1, 1, 2>>
    /\ Len(u.res.val) = 4

\* C28: for Equals and right runs each in non-decreasing key order, join_m_pass
\* returns exactly the concatenations of the pairs of a tuple of the left run
\* and a tuple of any right run with equal keys: the break taken in one right
\* run does not end the scan of the right runs after it.
C28_EarlyExitPerRightRun ==
    (/\ u.fn = "join_m_pass" /\ u.done /\ u.pre.op = "Equals"
     /\ \A j \in DOMAIN u.right_runs :
           NonDecreasing(KeysOf(u.right_runs[j], u.pre.right_index))) =>
        /\ ~u.res.panic
        /\ SameBag(u.res.val, PairsOf(u.run, Flatten(u.right_runs), u.pre))

C28_Witness ==
    /\ u.fn = "join_m_pass"
    /\ u.done
    /\ KeysOf(u.run, 0) = <<1, 0>>
    /\ Len(u.right_runs) = 2
    /\ KeysOf(u.right_runs[1], 0) = <<0, 2>>
    /\ KeysOf(u.right_runs[2], 0) = <<1, 1>>
    /\ Len(u.res.val) = 3

\* what the task of next for left run number i (from 1) returns
JoinTask(run, i) ==
    IF sm.sort_merge_method = 1
    THEN join_m_way(run, sm.l3_runs_r[i], sm.predicate).res
    ELSE join_m_pass(run, sm.l3_runs_r, sm.predicate).res

\* C29: whatever the order in which the workers end: sort_runs has at position
\* i of its result the sorted form of input run i; next has at position i of
\* the joined runs, and stores at position i of l3_runs_l, what the task for
\* left run i returned, which in m-way is the join of left bucket i with right
\* bucket i; open and next end as they do when each is taken as one step, with
\* the same l3_runs_l in content and order.
C29_TaskIndexCorrespondence ==
    kind = "SMT" =>
        /\ w.pc \in {"l1_l", "l1_r"} =>
              \A i \in DOMAIN w.res : w.res[i] = sort_run_l1(w.runs[i], StageIndex(w.pc))
        /\ w.pc \in {"l2_l", "l2_r"} =>
              \A i \in DOMAIN w.res : w.res[i] = sort_run_l2(w.runs[i], StageIndex(w.pc))
        /\ w.pc = "join" =>
              \A i \in DOMAIN w.res : w.res[i] = JoinTask(w.runs[i], i)
        /\ (w.pc = "idle" /\ h.call = "next" /\ h.ret = "none") =>
              /\ Len(sm.l3_runs_l) = Len(w.runs)
              /\ \A i \in DOMAIN w.runs : sm.l3_runs_l[i] = JoinTask(w.runs[i], i)
        /\ (w.pc = "idle" /\ h.call \in {"open", "next"}) =>
              /\ h.ret = w.seq.ret
              /\ h.ret # "panic" => sm = w.seq.j

C29_Witness ==
    /\ kind = "SMT"
    /\ left_tuples = Scan1
    /\ right_tuples = Scan2
    /\ sm.sort_merge_method = 1
    /\ w.pc = "idle"
    /\ h.call = "next"
    /\ h.ret = "none"
    /\ w.ended = <<w.handles[3], w.handles[1], w.handles[2]>>
    /\ Len(Flatten(sm.l3_runs_l)) = 10

NoneRunning(wr) == \A t \in DOMAIN wr.threads : wr.threads[t].status # "running"

\* C30: in sort-merge open and next a worker is spawned only when every worker
\* of the stages before has ended; l3_runs_l, l3_runs_r, min_r and max_r are
\* assigned only when no worker runs; and a driving call that returns leaves
\* no worker running.
C30_ForkJoinBarrier ==
    [][kind = "SMT" =>
          /\ Len(w'.threads) > Len(w.threads) =>
                \A t \in DOMAIN w.threads :
                    StageNo(w.threads[t].stage) < StageNo(w'.pc) =>
                        w.threads[t].status # "running"
          /\ (\/ sm'.l3_runs_l # sm.l3_runs_l \/ sm'.l3_runs_r # sm.l3_runs_r
              \/ sm'.min_r # sm.min_r \/ sm'.max_r # sm.max_r) => NoneRunning(w)
          /\ (w.pc # "idle" /\ w'.pc = "idle" /\ h'.ret # "panic") => NoneRunning(w')
      ]_vars

C30_Witness ==
    /\ kind = "SMT"
    /\ Len(left_tuples) = 16
    /\ Len(right_tuples) = 12
    /\ sm.sort_merge_method = 2
    /\ w.pc = "idle"
    /\ h.call = "next"
    /\ h.ret = "none"
    /\ Len(w.threads) = 12
    /\ w.ended = <<w.handles[2], w.handles[1]>>
    /\ NoneRunning(w)

SomePanicked(wr) == \E t \in DOMAIN wr.threads : wr.threads[t].status = "panicked"

\* C31: a worker of the sort-merge join that fails makes the driving call
\* abort: once a worker has panicked the call goes through no further stage
\* and ends only in its abort; l3_runs_l and l3_runs_r are assigned in no step
\* of a call in which a worker has panicked, so they keep the value they had
\* before the call.
C31_WorkerFailureAborts ==
    [][kind = "SMT" =>
          /\ (SomePanicked(w) /\ w'.pc # w.pc) => (w'.pc = "idle" /\ h'.ret = "panic")
          /\ (SomePanicked(w) \/ SomePanicked(w')) =>
                (sm'.l3_runs_l = sm.l3_runs_l /\ sm'.l3_runs_r = sm.l3_runs_r)
      ]_vars

C31_Witness ==
    /\ kind = "SMT"
    /\ sm.sort_merge_method = 2
    /\ h.call = "next"
    /\ h.ret = "panic"
    /\ h.why = "worker"
    /\ Len(w.handles) = 2
    /\ w.threads[w.handles[1]].status = "panicked"
    /\ w.threads[w.handles[2]].status = "running"
    /\ sm.l3_runs_l = w.runs
    /\ Len(Flatten(sm.l3_runs_l)) = 16

\* C32: a sort-merge rewind on an open operator that returns Ok leaves
\* l3_runs_l and l3_runs_r empty, min_r and max_r at the values of the
\* constructor and both children rewound, and changes nothing else: not the
\* open flag, the predicate, the strategy or the schema; it starts no worker.
\* With children that do not fail it returns Ok.
C32_RewindFrame ==
    [][(kind = "SM" /\ h'.call = "rewind" /\ sm.open) =>
          /\ fault = NoFault => h'.ret = "ok"
          /\ h'.ret = "ok" =>
                sm' = [sm EXCEPT !.l3_runs_l = <<>>,
                                 !.l3_runs_r = <<>>,
                                 !.min_r = MinSentinel,
                                 !.max_r = <<>>,
                                 !.left_child = IterRewind(sm.left_child),
                                 !.right_child = IterRewind(sm.right_child)]
          /\ w' = w
      ]_vars

C32_Witness ==
    /\ IsScenario
    /\ kind = "SM"
    /\ sm.sort_merge_method = 1
    /\ h.call = "rewind"
    /\ h.ret = "ok"
    /\ Len(h.prev_out) = 10
    /\ sm.open
    /\ sm.l3_runs_l = <<>>
    /\ sm.min_r = MinSentinel
    /\ sm.left_child.index = 0

\* the positions (from 1) of the right tuples whose join-field value is a key
\* of the table
RightInTable(ht) ==
    {k \in DOMAIN right_tuples :
        /\ get_field(right_tuples[k], hj.predicate.right_index) # None
        /\ get_field(right_tuples[k], hj.predicate.right_index)[1] \in DOMAIN ht}

\* C33: a hash-join rewind leaves the table and the left child as they were.
\* When it returns Ok the right child stands right behind the first right
\* tuple whose join-field value is in the table, which is the current right
\* tuple with the cursor at the start of its group; with no such right tuple
\* the right child is at its end and the cursor is as it was.
C33_HashRewindFrame ==
    [][(kind = "HJ" /\ h'.call = "rewind") =>
          /\ hj'.ht = hj.ht
          /\ hj'.left_child = hj.left_child
          /\ hj'.open = hj.open
          /\ h'.ret = "ok" =>
                IF RightInTable(hj.ht) = {}
                THEN /\ hj'.right_child.index = Len(right_tuples) + 1
                     /\ hj' = [hj EXCEPT !.right_child = hj'.right_child]
                ELSE LET k == CHOOSE m \in RightInTable(hj.ht) :
                                  \A n \in RightInTable(hj.ht) : m <= n
                     IN  hj' = [hj EXCEPT
                                  !.right_child = [opened |-> TRUE, index |-> k],
                                  !.right_tuple_cur = right_tuples[k],
                                  !.field_cur = right_tuples[k][hj.predicate.right_index + 1],
                                  !.index_cur = 0]
      ]_vars

C33_Witness ==
    /\ kind = "HJ"
    /\ h.call = "rewind"
    /\ h.ret = "ok"
    /\ h.prev_ok
    /\ left_tuples = << <<0, 1>> >>
    /\ right_tuples = << <<1>>, <<0>> >>
    /\ hj.right_child.index = 2
    /\ hj.right_tuple_cur = <<0>>
    /\ hj.index_cur = 0
    /\ hj.left_child.index = 2
    /\ HtSize(hj.ht) = 1

\* open and one next of a sort-merge join constructed over the same children
\* and predicate with the given strategy: whether both calls complete, and the
\* runs next leaves in l3_runs_l
StrategyResult(method) ==
    LET j == SortMergeJoinNew(sm.predicate, method)
        l1_l == split_runs(left_tuples)
        l1_r == split_runs(right_tuples)
        failed == [ok |-> FALSE, runs |-> <<>>]
    IN  IF sort_runs_panics(l1_l, 1) \/ sort_runs_panics(l1_r, 1) THEN failed
        ELSE
        LET l2_l == merge_1_to_2(sort_runs(l1_l, j.predicate.left_index, 1))
            l2_r == merge_1_to_2(sort_runs(l1_r, j.predicate.right_index, 1))
        IN  IF sort_runs_panics(l2_l, 2) \/ sort_runs_panics(l2_r, 2) THEN failed
            ELSE
            LET o == level_3(j, sort_runs(l2_l, j.predicate.left_index, 2),
                             sort_runs(l2_r, j.predicate.right_index, 2))
                task(i) == IF method = 1
                           THEN join_m_way(o.j.l3_runs_l[i], o.j.l3_runs_r[i], j.predicate)
                           ELSE join_m_pass(o.j.l3_runs_l[i], o.j.l3_runs_r, j.predicate)
            IN  IF o.ret # "ok" THEN failed
                ELSE IF \E i \in DOMAIN o.j.l3_runs_l : task(i).panic THEN failed
                ELSE [ok |-> TRUE, runs |-> [i \in DOMAIN o.j.l3_runs_l |-> task(i).res]]

\* C34: for Equals, when open and one next of the sort-merge join with one
\* strategy have completed, they complete with the other strategy over the
\* same children too, and leave the same multiset of tuples in l3_runs_l.
C34_StrategiesAgree ==
    (/\ kind = "SM" /\ sm.predicate.op = "Equals" /\ fault = NoFault
     /\ DrainedAfterOpen /\ h.call = "next") =>
        LET other == StrategyResult(IF sm.sort_merge_method = 1 THEN 2 ELSE 1) IN
        /\ other.ok
        /\ SameBag(Flatten(sm.l3_runs_l), Flatten(other.runs))


\* C35: sort-merge join: once the first next after open has computed the join,
\* a further next with no rewind, close or open in between leaves l3_runs_l as
\* it is; the joined tuples are not joined with the right runs again
C35_NextJoinsOnce ==
    [][(/\ kind = "SM" /\ DrainedAfterOpen /\ h.call = "next" /\ h.ret = "none"
        /\ h'.call = "next" /\ h'.drain = "past")
          => sm'.l3_runs_l = sm.l3_runs_l]_vars


\* the left tuples whose join field is k, in left-stream order
LeftGroup(k) ==
    SelectSeq(left_tuples, LAMBDA t : get_field(t, hj.predicate.left_index) = <<k>>)

LeftKeys ==
    {get_field(left_tuples[i], hj.predicate.left_index)[1] :
        i \in {n \in DOMAIN left_tuples :
                  get_field(left_tuples[n], hj.predicate.left_index) # None}}

\* C36: hash equi-join: in every open state reached by open, next, rewind and
\* close calls (open called again without a close included) the table holds
\* every left tuple exactly once, in the group of its join-field value and in
\* left-stream order within the group
C36_TableHoldsLeftOnce ==
    (kind = "HJ" /\ hj.open /\ Running /\ fault = NoFault) =>
        /\ DOMAIN hj.ht = LeftKeys
        /\ \A k \in DOMAIN hj.ht : hj.ht[k] = LeftGroup(k)


\* C37: nested-loop join and hash equi-join, children whose end-of-stream is
\* sticky and whose calls do not fail: once next has returned end-of-stream, a
\* later next with no rewind, close or open in between returns end-of-stream
\* again, and no tuple
C37_EndOfStreamSticky ==
    [][(/\ kind \in {"NL", "HJ"} /\ fault = NoFault
        /\ h.call = "next" /\ h.ret = "none"
        /\ h'.call = "next")
          => (h'.ret = "none" /\ h'.t = <<>> /\ h'.out = h.out)]_vars

\* a hash equi-join that returned tuples was asked again after end-of-stream
C37_Witness ==
    /\ kind = "HJ" /\ fault = NoFault
    /\ h.call = "next" /\ h.ret = "none" /\ h.drain = "past"
    /\ Len(h.out) >= 2
    /\ hj.right_child.index = Len(right_tuples) + 2


\* C38: each of the three operators: when open returns an error because a
\* child's open or next failed, the operator is not left in the open state, and
\* a following next, rewind or close is treated as a call on an operator that
\* was not opened
C38_FailedOpenNotOpen ==
    [][(kind \in {"NL", "HJ", "SM"} /\ h.call = "open" /\ h.ret = "err") =>
          /\ ~Operator.open
          /\ h'.call \in {"next", "rewind", "close"} =>
                (h'.ret = "panic" /\ h'.why = "not_open")]_vars


\* C39: sort_m_way_l3, every pair of 32-bit keys min <= max: the two cut points
\* min + (max - min) / 3 and min + (max - min) * 2 / 3, computed in 32-bit
\* signed arithmetic, do not overflow, and min <= one_third <= two_third <= max
C39_CutPointsInRange ==
    (kind = "helper" /\ u.fn = "cut_points" /\ u.done) =>
        /\ ~u.res.panic
        /\ ~u.res.val.ovf
        /\ u.min_val <= u.res.val.one_third
        /\ u.res.val.one_third <= u.res.val.two_third
        /\ u.res.val.two_third <= u.max_val

====
